---------------------------- MODULE Spec2Model ----------------------------
(***************************************************************************)
(* A model of the EU harmonized-standards checker: the OJ standards        *)
(* fetcher (oj_checker.py), the disk cache (utils.py), the data model      *)
(* (data_models.py), the bundled samples (sample_data.py), the ISO17025    *)
(* scope extractor (iso17025_extractor.py), the standards comparator       *)
(* (comparator.py), the registry validator (oj_config_validator.py) and    *)
(* the registry loader (config.py).                                        *)
(*                                                                         *)
(* Python strings are sequences of one-character strings, so that strip,   *)
(* split, startswith, int() and the string order are computed as the code  *)
(* computes them.                                                          *)
(***************************************************************************)
EXTENDS Integers, Sequences, FiniteSets, TLC

VARIABLES
    standards,      \* pure-function runs: the list handed to the operation
    query,          \* pure-function runs: the search query
    out,            \* pure-function runs: what the operation returned
    op,             \* pure-function runs: the operation that ran ("none" before)
    files,          \* the cache directory: key -> envelope, or NoFile
    now,            \* the wall clock, in seconds
    res,            \* the last call of the fetcher: directive, result, I/O done
    prev,           \* what the call before had left for res.directive (history)
    okHist,         \* per directive, the last freshly fetched success (history)
    cres,           \* the last call of the cache API (save / load)
    saved,          \* per key, the payload last saved and when (history)
    pdfs,           \* the file system: path -> content of the PDF there
    xres,           \* the last call of the scope extractor
    xdone,          \* contents whose extraction has returned success (history)
    iso_standards,  \* comparator runs: the ISO17025 list (standards is the OJ list)
    similarity_threshold,   \* the comparator's threshold, a fraction
    cmp,            \* the last call of the comparator and its result
    config_file,    \* the registry file on disk: absent, unparsable or a document
    errors,         \* the validator's self.errors
    warnings,       \* the validator's self.warnings
    vres,           \* the last call of the validator and what it returned
    vprev,          \* the validator call before, and the file it read (history)
    oj_config,      \* config.py: _oj_config
    DIRECTIVE_URLS, \* config.py: the mirror code -> EC webpage
    EUR_LEX_URLS,   \* config.py: the mirror code -> main, amendments, ...
    DIRECTIVE_INFO, \* config.py: the mirror code -> name, directive, ...
    cfgres,         \* the last call into config.py or the manager and its outcome
    writable,       \* whether the registry file can be opened for writing
    search_params,  \* config.py: ETSI_PORTAL['search_params'], shared by the searchers
    sres,           \* the last call of the ETSI searcher and its result
    rt              \* the run of a function wrapped by retry_on_failure

pureVars == <<standards, query, out, op>>
cacheVars == <<files, now>>
fetchVars == <<res, prev, okHist>>
capiVars == <<cres, saved>>
extractVars == <<pdfs, xres, xdone>>
compareVars == <<iso_standards, similarity_threshold, cmp>>
validatorVars == <<errors, warnings, vres, vprev>>
configVars == <<oj_config, DIRECTIVE_URLS, EUR_LEX_URLS, DIRECTIVE_INFO, cfgres>>
toolVars == <<writable, search_params, sres, rt>>
moduleVars == <<compareVars, config_file, validatorVars, configVars, toolVars>>
vars == <<standards, query, out, op, files, now, res, prev, okHist, cres,
          saved, pdfs, xres, xdone, iso_standards, similarity_threshold, cmp,
          config_file, errors, warnings, vres, vprev, oj_config,
          DIRECTIVE_URLS, EUR_LEX_URLS, DIRECTIVE_INFO, cfgres, writable,
          search_params, sres, rt>>

-----------------------------------------------------------------------------
(* Bounds of the model *)

MaxLen == 3
MaxTicks == 3

-----------------------------------------------------------------------------
(* Python str *)

\* The characters of the model, in code-point order.
Alphabet ==
    <<" ", "#", "(", ")", "+", "-", ".", "/", "0", "1", "2", "3", "4", "5",
      "6", "7", "8", "9", ":", "A", "B", "C", "D", "E", "F", "G", "H", "I",
      "J", "K", "L", "M", "N", "O", "P", "Q", "R", "S", "T", "U", "V", "W",
      "X", "Y", "Z", "[", "\\", "]", "_", "a", "b", "c", "d", "e", "f", "g", "h", "i", "j", "k", "l",
      "m", "n", "o", "p", "q", "r", "s", "t", "u", "v", "w", "x", "y", "z">>

\* The place of each character in that order.
OrdOf == [c \in {Alphabet[i] : i \in 1..Len(Alphabet)} |->
              CHOOSE i \in 1..Len(Alphabet) : Alphabet[i] = c]

Ord(c) == OrdOf[c]

IsDigit(c) == c \in {"0", "1", "2", "3", "4", "5", "6", "7", "8", "9"}

DigitVal(c) == Ord(c) - Ord("0")

IsLower(c) == Ord(c) >= Ord("a") /\ Ord(c) <= Ord("z")

IsUpperCase(c) == Ord(c) >= Ord("A") /\ Ord(c) <= Ord("Z")

UpperChar(c) == IF IsLower(c) THEN Alphabet[Ord(c) - (Ord("a") - Ord("A"))] ELSE c

LowerChar(c) == IF IsUpperCase(c) THEN Alphabet[Ord(c) + (Ord("a") - Ord("A"))] ELSE c

\* str.upper() and str.lower()
Upper(s) == [i \in 1..Len(s) |-> UpperChar(s[i])]

Lower(s) == [i \in 1..Len(s) |-> LowerChar(s[i])]

\* Python's < on str: the first differing character decides, a proper prefix is less.
RECURSIVE StrLess(_, _)
StrLess(a, b) ==
    IF b = <<>> THEN FALSE
    ELSE IF a = <<>> THEN TRUE
    ELSE IF Head(a) # Head(b) THEN Ord(Head(a)) < Ord(Head(b))
    ELSE StrLess(Tail(a), Tail(b))

StartsWith(s, p) == Len(s) >= Len(p) /\ SubSeq(s, 1, Len(p)) = p

\* sub in s
Contains(s, sub) ==
    \E i \in 1..(Len(s) + 1) :
        i + Len(sub) - 1 <= Len(s) /\ SubSeq(s, i, i + Len(sub) - 1) = sub

RECURSIVE LStrip(_)
LStrip(s) == IF s # <<>> /\ Head(s) = " " THEN LStrip(Tail(s)) ELSE s

RECURSIVE RStrip(_)
RStrip(s) ==
    IF s # <<>> /\ s[Len(s)] = " " THEN RStrip(SubSeq(s, 1, Len(s) - 1)) ELSE s

\* str.strip()
Strip(s) == RStrip(LStrip(s))

\* str.replace('  ', ' '): the non-overlapping pairs of spaces, left to right.
RECURSIVE ReplaceDoubleSpace(_)
ReplaceDoubleSpace(s) ==
    IF Len(s) < 2 THEN s
    ELSE IF s[1] = " " /\ s[2] = " "
         THEN <<" ">> \o ReplaceDoubleSpace(SubSeq(s, 3, Len(s)))
         ELSE <<s[1]>> \o ReplaceDoubleSpace(Tail(s))

\* str.split(sep) for a one-character sep: every separator cuts, empty pieces kept.
RECURSIVE SplitOn(_, _, _)
SplitOn(s, sep, cur) ==
    IF s = <<>> THEN <<cur>>
    ELSE IF Head(s) = sep THEN <<cur>> \o SplitOn(Tail(s), sep, <<>>)
    ELSE SplitOn(Tail(s), sep, Append(cur, Head(s)))

\* str.split(): cut at runs of whitespace, no empty pieces.
SplitWs(s) == SelectSeq(SplitOn(s, " ", <<>>), LAMBDA w : w # <<>>)

\* str.split(sep, 1): cut at the first separator only.
SplitFirst(s, sep) ==
    IF \E i \in 1..Len(s) : s[i] = sep
    THEN LET i == CHOOSE j \in 1..Len(s) :
                      s[j] = sep /\ \A k \in 1..(j - 1) : s[k] # sep
         IN  <<SubSeq(s, 1, i - 1), SubSeq(s, i + 1, Len(s))>>
    ELSE <<s>>

AllDigits(s) == s # <<>> /\ \A i \in 1..Len(s) : IsDigit(s[i])

RECURSIVE DigitsValue(_)
DigitsValue(s) ==
    IF s = <<>> THEN 0 ELSE 10 * DigitsValue(SubSeq(s, 1, Len(s) - 1)) + DigitVal(s[Len(s)])

\* int(s) raises ValueError unless s is an optionally signed run of digits.
IntOk(s) ==
    \/ AllDigits(s)
    \/ Len(s) >= 2 /\ s[1] \in {"+", "-"} /\ AllDigits(Tail(s))

IntOf(s) ==
    IF AllDigits(s) THEN DigitsValue(s)
    ELSE IF s[1] = "-" THEN 0 - DigitsValue(Tail(s))
    ELSE DigitsValue(Tail(s))

-----------------------------------------------------------------------------
(* data_models.py: Standard *)

\* Standard.normalize_standard_number
normalize_standard_number(number) == ReplaceDoubleSpace(Strip(number))

\* Standard(number, version, directive, title, ...): __post_init__ normalizes
\* the number; the other fields (title stands for the seven further string
\* fields, which no operation of the model reads) are stored as given.
Standard(number, version, directive, title) ==
    [number |-> normalize_standard_number(number), version |-> version,
     directive |-> directive, title |-> title]

-----------------------------------------------------------------------------
(* oj_checker.py: _compare_versions and _deduplicate_standards *)

\* The end of the run of digits that starts at s[i]; i - 1 when s[i] is no digit.
DigitRunEnd(s, i) ==
    CHOOSE j \in (i - 1)..Len(s) :
        /\ \A k \in i..j : IsDigit(s[k])
        /\ (j = Len(s) \/ ~IsDigit(s[j + 1]))

\* V?(\d+)\.(\d+)\.(\d+) matched at position i: the three numbers, or <<>>.
VersionMatchAt(s, i) ==
    LET a  == IF i <= Len(s) /\ s[i] = "V" THEN i + 1 ELSE i
        e1 == DigitRunEnd(s, a)
        e2 == DigitRunEnd(s, e1 + 2)
        e3 == DigitRunEnd(s, e2 + 2)
    IN  IF /\ a <= Len(s) /\ e1 >= a
           /\ e1 + 2 <= Len(s) /\ s[e1 + 1] = "." /\ e2 >= e1 + 2
           /\ e2 + 2 <= Len(s) /\ s[e2 + 1] = "." /\ e3 >= e2 + 2
        THEN <<IntOf(SubSeq(s, a, e1)), IntOf(SubSeq(s, e1 + 2, e2)),
               IntOf(SubSeq(s, e2 + 2, e3))>>
        ELSE <<>>

\* re.search(r'V?(\d+)\.(\d+)\.(\d+)', s): the groups of the leftmost match, or <<>>.
VersionSearch(s) ==
    IF \E i \in 1..Len(s) : VersionMatchAt(s, i) # <<>>
    THEN VersionMatchAt(s, CHOOSE i \in 1..Len(s) :
             /\ VersionMatchAt(s, i) # <<>>
             /\ \A k \in 1..(i - 1) : VersionMatchAt(s, k) = <<>>)
    ELSE <<>>

\* The loop over the three parts: the first differing part decides.
PartsCompare(p1, p2) ==
    IF \E i \in 1..3 : p1[i] # p2[i]
    THEN LET i == CHOOSE j \in 1..3 : p1[j] # p2[j] /\ \A k \in 1..(j - 1) : p1[k] = p2[k]
         IN  IF p1[i] > p2[i] THEN 1 ELSE -1
    ELSE 0

StringCompare(version1, version2) ==
    IF StrLess(version2, version1) THEN 1
    ELSE IF StrLess(version1, version2) THEN -1 ELSE 0

\* Always the string comparison, never the numbers of V#.#.# (a mutant).
compare_versions_lexical(version1, version2) == StringCompare(version1, version2)

compare_versions(version1, version2) ==
    LET m1 == VersionSearch(version1)
        m2 == VersionSearch(version2)
    IN  IF m1 # <<>> /\ m2 # <<>> THEN PartsCompare(m1, m2)
        ELSE StringCompare(version1, version2)

\* One pass of the loop: standard_map is the dict, in insertion order.
DedupStep(standard_map, standard) ==
    IF \E i \in 1..Len(standard_map) : standard_map[i].number = standard.number
    THEN LET i == CHOOSE j \in 1..Len(standard_map) :
                      standard_map[j].number = standard.number
             existing == standard_map[i]
         IN  IF standard.version # <<>> /\ existing.version = <<>>
             THEN [standard_map EXCEPT ![i] = standard]
             ELSE IF standard.version = <<>> /\ existing.version # <<>>
             THEN standard_map
             ELSE IF standard.version # <<>> /\ existing.version # <<>>
                     /\ compare_versions(standard.version, existing.version) > 0
             THEN [standard_map EXCEPT ![i] = standard]
             ELSE standard_map
    ELSE Append(standard_map, standard)

RECURSIVE DedupFrom(_, _)
DedupFrom(standard_map, stds) ==
    IF stds = <<>> THEN standard_map
    ELSE DedupFrom(DedupStep(standard_map, Head(stds)), Tail(stds))

deduplicate_standards(stds) == DedupFrom(<<>>, stds)

-----------------------------------------------------------------------------
(* oj_checker.py: _sort_standards_by_number *)

\* The elements of a sort key (a Python tuple): a str, an int, a tuple of ints.
KStr(v) == [k |-> "s", v |-> v]
KInt(v) == [k |-> "i", v |-> v]
KTup(v) == [k |-> "t", v |-> v]

Sentinel == 999999

DefaultKey(number) == <<KStr(number), KInt(Sentinel)>>

\* A part of the dash suffix: its number, or the sentinel when int() raises.
PartNum(part) == IF IntOk(part) THEN IntOf(part) ELSE Sentinel

\* The branch number.startswith('EN '), number upper-cased and stripped: the key
\* it returns, or <<>> when it falls through (fewer than three words, or int()
\* raised ValueError).
ENBranch(number) ==
    LET parts == SplitWs(number)
    IN  IF Len(parts) < 3 \/ ~IntOk(parts[2]) THEN <<>>
        ELSE LET main_num == IntOf(parts[2])
                 second_part == parts[3]
                 cut == SplitFirst(second_part, "-")
             IN  IF Len(cut) = 2
                 THEN IF ~IntOk(cut[1]) THEN <<>>
                      ELSE LET part_parts == SplitOn(cut[2], "-", <<>>)
                           IN  <<KStr(<<"E", "N">>), KInt(main_num), KInt(IntOf(cut[1])),
                                 KTup([i \in 1..Len(part_parts) |-> PartNum(part_parts[i])])>>
                 ELSE IF ~IntOk(second_part) THEN <<>>
                 ELSE <<KStr(<<"E", "N">>), KInt(main_num), KInt(IntOf(second_part)),
                        KTup(<<0>>)>>

\* re.findall(r'\d+', s): the maximal runs of digits, left to right.
RECURSIVE DigitRuns(_)
DigitRuns(s) ==
    IF s = <<>> THEN <<>>
    ELSE IF IsDigit(Head(s))
         THEN LET e == DigitRunEnd(s, 1)
              IN  <<SubSeq(s, 1, e)>> \o DigitRuns(SubSeq(s, e + 1, Len(s)))
         ELSE DigitRuns(Tail(s))

\* The key of a standard whose number starts with 'EN ': the branch's key, or
\* the default key of the standard's own number.
ENKey(std) ==
    LET key == ENBranch(Strip(Upper(std.number)))
    IN  IF key # <<>> THEN key ELSE DefaultKey(std.number)

\* The ETSI branch as written: number[5:] still starts with "EN ", and the
\* temporary standard is numbered "EN " + that.
ETSIKey(std) ==
    LET number == Strip(Upper(std.number))
        en_part == SubSeq(number, 6, Len(number))
        temp_standard == Standard(<<"E", "N", " ">> \o en_part, std.version,
                                  std.directive, std.title)
        key == ENKey(temp_standard)
    IN  <<KStr(<<"E", "T", "S", "I">>)>> \o Tail(key)

OtherKey(std) ==
    LET number == Strip(Upper(std.number))
        numbers == DigitRuns(number)
    IN  IF numbers # <<>>
        THEN <<KStr(SplitWs(number)[1])>> \o [i \in 1..Len(numbers) |-> KInt(IntOf(numbers[i]))]
        ELSE DefaultKey(number)

\* The key with the words of an EN number compared as text (a mutant).
extract_sort_key_lexical(std) == DefaultKey(std.number)

extract_sort_key(std) ==
    LET number == Strip(Upper(std.number))
    IN  IF StartsWith(number, <<"E", "N", " ">>) THEN ENKey(std)
        ELSE IF StartsWith(number, <<"E", "T", "S", "I", " ", "E", "N", " ">>) THEN ETSIKey(std)
        ELSE OtherKey(std)

\* Python's < on tuples of ints.
RECURSIVE IntsLess(_, _)
IntsLess(a, b) ==
    IF b = <<>> THEN FALSE
    ELSE IF a = <<>> THEN TRUE
    ELSE IF Head(a) # Head(b) THEN Head(a) < Head(b)
    ELSE IntsLess(Tail(a), Tail(b))

ElemLess(x, y) ==
    IF x.k = "s" THEN StrLess(x.v, y.v)
    ELSE IF x.k = "i" THEN x.v < y.v
    ELSE IntsLess(x.v, y.v)

\* a < b on keys: "lt", "ge", or "err" (TypeError: the first differing elements
\* are of different types).
RECURSIVE KeyCmp(_, _)
KeyCmp(a, b) ==
    IF b = <<>> THEN "ge"
    ELSE IF a = <<>> THEN "lt"
    ELSE IF Head(a) = Head(b) THEN KeyCmp(Tail(a), Tail(b))
    ELSE IF Head(a).k # Head(b).k THEN "err"
    ELSE IF ElemLess(Head(a), Head(b)) THEN "lt" ELSE "ge"

\* sorted(): stable; position x of the list goes before the first position it
\* is less than. less[x][y] is the comparison of the two positions.
RECURSIVE InsertBy(_, _, _)
InsertBy(acc, x, less) ==
    IF acc = <<>> THEN <<x>>
    ELSE IF less[x][Head(acc)] THEN <<x>> \o acc
    ELSE <<Head(acc)>> \o InsertBy(Tail(acc), x, less)

RECURSIVE SortedFrom(_, _, _)
SortedFrom(acc, rest, less) ==
    IF rest = <<>> THEN acc
    ELSE SortedFrom(InsertBy(acc, Head(rest), less), Tail(rest), less)

\* The positions 1..n in sorted order.
SortedPositions(n, less) == SortedFrom(<<>>, [i \in 1..n |-> i], less)

\* The keys of the list, in its order.
RECURSIVE SortKeys(_)
SortKeys(stds) ==
    IF stds = <<>> THEN <<>>
    ELSE <<extract_sort_key(Head(stds))>> \o SortKeys(Tail(stds))

\* The elements of the list at the given positions.
RECURSIVE AtPositions(_, _)
AtPositions(stds, order) ==
    IF order = <<>> THEN <<>>
    ELSE <<stds[Head(order)]>> \o AtPositions(stds, Tail(order))

\* sorted(standards, key=...) with the keys taken; a TypeError between two
\* keys makes the whole sort fall back to sorted(standards, key=lambda x: x.number).
SortedByKeys(stds, key) ==
    LET n == Len(stds)
        raises == \E i, j \in 1..n : KeyCmp(key[i], key[j]) = "err"
        byKey == [i \in 1..n |-> [j \in 1..n |-> KeyCmp(key[i], key[j]) = "lt"]]
        byNumber == [i \in 1..n |-> [j \in 1..n |-> StrLess(stds[i].number, stds[j].number)]]
    IN  AtPositions(stds, SortedPositions(n, IF raises THEN byNumber ELSE byKey))

sort_standards_by_number(stds) == SortedByKeys(stds, SortKeys(stds))

\* search_standards, after the fetch: the standards whose number or title holds
\* the query, in any case, through the same sort.
search_standards(q, stds) ==
    LET query_lower == Lower(q)
    IN  sort_standards_by_number(
            SelectSeq(stds, LAMBDA s : \/ Contains(Lower(s.number), query_lower)
                                       \/ Contains(Lower(s.title), query_lower)))

-----------------------------------------------------------------------------
(* Python values as the cache sees them: a str, None, a list, a dict with str
   keys, or an object (an instance with a __dict__) of a named class. *)

PyStr(s) == [t |-> "str", s |-> s]
PyNone == [t |-> "null"]
PyList(items) == [t |-> "list", items |-> items]
PyDict(map) == [t |-> "dict", map |-> map]
PyObj(cls, fields) == [t |-> "obj", cls |-> cls, fields |-> fields]

\* The class names the cache dispatches on, and the key it tags objects with.
StandardCls == <<"S", "t", "a", "n", "d", "a", "r", "d">>
TestStandardCls == <<"T", "e", "s", "t", "S", "t", "a", "n", "d", "a", "r", "d">>
CertificateInfoCls == <<"C", "e", "r", "t", "i", "f", "i", "c", "a", "t", "e", "I", "n", "f", "o">>
AccreditationScopeCls == <<"A", "c", "c", "r", "e", "d", "i", "t", "a", "t", "i", "o", "n", "S", "c", "o", "p", "e">>

\* What an operation returns when it raises.
Raised == [t |-> "raise"]

\* A dict with one more key (d[key] = value).
WithKey(d, key, value) ==
    [k \in DOMAIN d \cup {key} |-> IF k = key THEN value ELSE d[k]]

\* A dict without a key (d.pop(key)).
WithoutKey(d, key) == [k \in DOMAIN d \ {key} |-> d[k]]

\* utils._make_serializable: an object becomes the dict of its fields plus
\* '_class_name'; lists and dicts recurse; anything else passes.
RECURSIVE make_serializable(_)
make_serializable(obj) ==
    IF obj.t = "obj"
    THEN PyDict(WithKey([k \in DOMAIN obj.fields |-> make_serializable(obj.fields[k])],
                        "_class_name", PyStr(obj.cls)))
    ELSE IF obj.t = "list"
    THEN PyList([i \in DOMAIN obj.items |-> make_serializable(obj.items[i])])
    ELSE IF obj.t = "dict"
    THEN PyDict([k \in DOMAIN obj.map |-> make_serializable(obj.map[k])])
    ELSE obj

\* Cls(**data) raises TypeError unless every required field is given and no
\* other keyword than the fields.
KeywordsOk(data, required, optional) ==
    required \subseteq DOMAIN data /\ DOMAIN data \subseteq (required \cup optional)

StandardFields == {"number", "version", "directive", "title"}
TestStandardFields == {"standard_number", "version", "category", "description", "source"}
CertificateInfoFields ==
    {"certificate_number", "valid_until", "organization", "accreditation_body", "revision_date"}

\* Standard(**data): __post_init__ calls number.strip(), which a str has.
NewStandard(data) ==
    IF KeywordsOk(data, StandardFields, {}) /\ data["number"].t = "str"
    THEN PyObj(StandardCls,
               [data EXCEPT !["number"] = PyStr(normalize_standard_number(data["number"].s))])
    ELSE Raised

\* TestStandard(**data): __post_init__ normalizes standard_number the same way.
NewTestStandard(data) ==
    IF KeywordsOk(data, TestStandardFields, {}) /\ data["standard_number"].t = "str"
    THEN PyObj(TestStandardCls,
               [data EXCEPT !["standard_number"] =
                                PyStr(normalize_standard_number(data["standard_number"].s))])
    ELSE Raised

\* CertificateInfo(**data): contact_info defaults to None.
NewCertificateInfo(data) ==
    IF KeywordsOk(data, CertificateInfoFields, {"contact_info"})
    THEN PyObj(CertificateInfoCls,
               IF "contact_info" \in DOMAIN data THEN data
               ELSE WithKey(data, "contact_info", PyNone))
    ELSE Raised

\* The branch class_name == 'AccreditationScope': data is the dict without its
\* '_class_name'; the nested dicts are passed to the constructors as they are.
NewAccreditationScope(data) ==
    IF ~({"certificate_info", "test_standards", "extraction_date", "pdf_source"}
            \subseteq DOMAIN data)
       \/ data["certificate_info"].t # "dict"
       \/ data["test_standards"].t # "list"
       \/ \E i \in DOMAIN data["test_standards"].items :
              data["test_standards"].items[i].t # "dict"
    THEN Raised
    ELSE LET cert_info == NewCertificateInfo(data["certificate_info"].map)
             test_standards == [i \in DOMAIN data["test_standards"].items |->
                                   NewTestStandard(data["test_standards"].items[i].map)]
         IN  IF cert_info = Raised \/ \E i \in DOMAIN test_standards : test_standards[i] = Raised
             THEN Raised
             ELSE PyObj(AccreditationScopeCls,
                        [certificate_info |-> cert_info,
                         test_standards |-> PyList(test_standards),
                         extraction_date |-> data["extraction_date"],
                         pdf_source |-> data["pdf_source"]])

\* utils._deserialize_from_cache
RECURSIVE deserialize_from_cache(_)
deserialize_from_cache(data) ==
    IF data.t = "dict" /\ "_class_name" \in DOMAIN data.map
    THEN LET class_name == data.map["_class_name"]
             rest == WithoutKey(data.map, "_class_name")
         IN  IF class_name = PyStr(StandardCls) THEN NewStandard(rest)
             ELSE IF class_name = PyStr(TestStandardCls) THEN NewTestStandard(rest)
             ELSE IF class_name = PyStr(AccreditationScopeCls) THEN NewAccreditationScope(rest)
             ELSE PyDict(rest)
    ELSE IF data.t = "list"
    THEN LET items == [i \in DOMAIN data.items |-> deserialize_from_cache(data.items[i])]
         IN  IF \E i \in DOMAIN items : items[i] = Raised THEN Raised ELSE PyList(items)
    ELSE IF data.t = "dict"
    THEN LET items == [k \in DOMAIN data.map |-> deserialize_from_cache(data.map[k])]
         IN  IF \E k \in DOMAIN items : items[k] = Raised THEN Raised ELSE PyDict(items)
    ELSE data

(* utils.py: the disk cache; config.CACHE_CONFIG *)

CacheEnabled == TRUE
cache_duration == 86400

\* utils.create_cache_key: the md5 of "prefix:arg"; the digest is modelled by
\* the text it is taken of (two different texts get two different keys).
create_cache_key(prefix, arg) == <<prefix, arg>>

NoFile == [exists |-> FALSE]

\* The cache file json.dump writes: the values of the model (str, None, lists,
\* dicts with str keys) are written and read back by json unchanged.
Envelope(data, clock) ==
    [exists |-> TRUE, data |-> make_serializable(data), expires_at |-> clock + cache_duration]

\* save_to_cache(key, data): the cache directory after the call.
save_to_cache(dir, key, data, clock) ==
    IF ~CacheEnabled THEN dir ELSE [dir EXCEPT ![key] = Envelope(data, clock)]

\* load_from_cache(key): a file past its expires_at is removed.
CacheAfterLoad(dir, key, clock) ==
    IF CacheEnabled /\ dir[key].exists /\ clock > dir[key].expires_at
    THEN [dir EXCEPT ![key] = NoFile]
    ELSE dir

\* load_from_cache(key): what it returns; None when the cache is disabled, the
\* file is missing or expired, or reading it back raises.
load_from_cache(dir, key, clock) ==
    IF ~CacheEnabled \/ ~dir[key].exists \/ clock > dir[key].expires_at THEN PyNone
    ELSE LET value == deserialize_from_cache(dir[key].data)
         IN  IF value = Raised THEN PyNone ELSE value

-----------------------------------------------------------------------------
(* The inputs of the pure-function runs *)

SeqsUpTo(S, n) == UNION {[1..k -> S] : k \in 0..n}

DigitChar(d) == Alphabet[Ord("0") + d]

\* The decimal digits of a natural number.
RECURSIVE Dec(_)
Dec(n) == IF n < 10 THEN <<DigitChar(n)>> ELSE Dec(n \div 10) \o <<DigitChar(n % 10)>>

RECURSIVE DashParts(_)
DashParts(parts) ==
    IF parts = <<>> THEN <<>> ELSE <<"-">> \o Dec(Head(parts)) \o DashParts(Tail(parts))

\* EN <N1> <N2>[-<P1>[-<P2>...]] for t = <<N1, N2, <<P1, P2, ...>>>>
ENNumber(t) == <<"E", "N", " ">> \o Dec(t[1]) \o <<" ">> \o Dec(t[2]) \o DashParts(t[3])

ETSINumber(t) == <<"E", "T", "S", "I", " ">> \o ENNumber(t)

ENTuples ==
    {<<300, 328, <<>>>>, <<301, 489, <<2>>>>, <<301, 489, <<17>>>>,
     <<301, 89, <<>>>>, <<301, 489, <<2, 1>>>>}

ETSITuples == {<<300, 328, <<>>>>, <<301, 489, <<2>>>>, <<301, 489, <<17>>>>}

\* Directive codes
RE == <<"R", "E">>
EMC == <<"E", "M", "C">>
LVD == <<"L", "V", "D">>
MD == <<"M", "D">>
ZZ == <<"Z", "Z">>

NoText == <<>>
V190 == <<"V", "1", ".", "9", ".", "0">>
V1100 == <<"V", "1", ".", "1", "0", ".", "0">>
V15 == <<"V", "1", ".", "5">>
V2008A1 == <<"V", "2", "0", "0", "8", "+", "A", "1", ":", "2", "0", "1", "3">>
TitleEMC == <<"E", "M", "C">>

SortPool ==
    {Standard(ENNumber(t), V190, RE, NoText) : t \in ENTuples}
        \cup {Standard(ETSINumber(t), V190, RE, TitleEMC) : t \in ETSITuples}

QueryPool == {<<"e", "n", " ", "3", "0", "1">>, <<"E", "M", "C">>}

DedupNumbers == {ENNumber(<<301, 489, <<17>>>>), ENNumber(<<300, 328, <<>>>>)}

DedupVersions == {NoText, V190, V1100, V15, V2008A1}

DedupPool == {Standard(n, v, RE, NoText) : n \in DedupNumbers, v \in DedupVersions}

-----------------------------------------------------------------------------
(* Values of the variables a run does not use *)

NoCall == [call |-> "none"]
None == [none |-> TRUE]

NoFiles == <<>>

PureIdle == standards = <<>> /\ query = <<>> /\ out = <<>> /\ op = "none"
CacheIdle == files = NoFiles /\ now = 0
FetchIdle == res = NoCall /\ prev = None /\ okHist = <<>>
CapiIdle == cres = NoCall /\ saved = <<>>
ExtractIdle == pdfs = <<>> /\ xres = NoCall /\ xdone = {}
CompareIdle == iso_standards = <<>> /\ similarity_threshold = <<0, 1>> /\ cmp = NoCall
ValidatorIdle == errors = <<>> /\ warnings = <<>> /\ vres = NoCall /\ vprev = NoCall
ConfigIdle ==
    /\ oj_config = None /\ DIRECTIVE_URLS = <<>> /\ EUR_LEX_URLS = <<>>
    /\ DIRECTIVE_INFO = <<>> /\ cfgres = NoCall
ToolsIdle == writable = TRUE /\ search_params = <<>> /\ sres = NoCall /\ rt = NoCall
ModulesIdle ==
    CompareIdle /\ config_file = None /\ ValidatorIdle /\ ConfigIdle /\ ToolsIdle

-----------------------------------------------------------------------------
(* Deduplication: the runs of _deduplicate_standards *)

InitDedup ==
    /\ standards \in SeqsUpTo(DedupPool, MaxLen)
    /\ query = <<>> /\ out = <<>> /\ op = "none"
    /\ CacheIdle /\ FetchIdle /\ CapiIdle /\ ExtractIdle /\ ModulesIdle

Deduplicate ==
    /\ op = "none"
    /\ out' = deduplicate_standards(standards)
    /\ op' = "dedup"
    /\ UNCHANGED <<standards, query, cacheVars, fetchVars, capiVars, extractVars, moduleVars>>

NextDedup == Deduplicate

SpecDedup == InitDedup /\ [][NextDedup]_vars

-----------------------------------------------------------------------------
(* Ordering: the runs of _sort_standards_by_number and of search_standards *)

InitSort ==
    /\ standards \in SeqsUpTo(SortPool, MaxLen)
    /\ query \in QueryPool
    /\ out = <<>> /\ op = "none"
    /\ CacheIdle /\ FetchIdle /\ CapiIdle /\ ExtractIdle /\ ModulesIdle

SortStandards ==
    /\ op = "none"
    /\ out' = sort_standards_by_number(standards)
    /\ op' = "sort"
    /\ UNCHANGED <<standards, query, cacheVars, fetchVars, capiVars, extractVars, moduleVars>>

\* search_standards from the matching on: standards is what the fetch returned.
SearchStandards ==
    /\ op = "none"
    /\ out' = search_standards(query, standards)
    /\ op' = "search"
    /\ UNCHANGED <<standards, query, cacheVars, fetchVars, capiVars, extractVars, moduleVars>>

NextSort == SortStandards \/ SearchStandards

SpecSort == InitSort /\ [][NextSort]_vars

-----------------------------------------------------------------------------
(* C5 *)

\* The shape V#.#.#, read off the text itself.
VShape(v) ==
    /\ v # <<>> /\ Head(v) = "V"
    /\ LET g == SplitOn(Tail(v), ".", <<>>)
       IN  Len(g) = 3 /\ \A i \in 1..3 : AllDigits(g[i])

Triple(v) == LET g == SplitOn(Tail(v), ".", <<>>) IN [i \in 1..3 |-> DigitsValue(g[i])]

TripleLess(a, b) ==
    \/ a[1] < b[1]
    \/ a[1] = b[1] /\ a[2] < b[2]
    \/ a[1] = b[1] /\ a[2] = b[2] /\ a[3] < b[3]

Range(f) == {f[i] : i \in DOMAIN f}

Entries(stds, n) == {e \in Range(stds) : e.number = n}

\* C5: deduplication keeps exactly one entry per distinct number of its input,
\* an entry of the input; for each number an entry with a version is kept over
\* the entries without one, and when the versions of the number all have the
\* shape V#.#.# the kept entry carries the greatest (major, minor, patch).
C5_DedupKeepsNewest ==
    op = "dedup" =>
        /\ {e.number : e \in Range(out)} = {e.number : e \in Range(standards)}
        /\ \A i, j \in 1..Len(out) : out[i].number = out[j].number => i = j
        /\ \A k \in Range(out) :
              LET same == Entries(standards, k.number)
                  versioned == {e \in same : e.version # <<>>}
              IN  /\ k \in same
                  /\ versioned # {} => k.version # <<>>
                  /\ (versioned # {} /\ \A e \in versioned : VShape(e.version)) =>
                        \A e \in versioned : ~TripleLess(Triple(k.version), Triple(e.version))

\* Three entries of one number, one without a version and V1.9.0 before V1.10.0:
\* the kept one is V1.10.0.
C5_Witness ==
    /\ op = "dedup" /\ Len(standards) = 3 /\ Len(out) = 1
    /\ standards[1].version = <<>> /\ standards[2].version = V190
    /\ standards[3].version = V1100
    /\ out[1].version = V1100

-----------------------------------------------------------------------------
(* C6, C7 *)

\* The tuple an EN / ETSI EN number of the pool was written from.
ENTupleOf(number) == CHOOSE t \in ENTuples : ENNumber(t) = number
ETSITupleOf(number) == CHOOSE t \in ETSITuples : ETSINumber(t) = number

IsENShaped(s) == \E t \in ENTuples : ENNumber(t) = s.number
IsETSIShaped(s) == \E t \in ETSITuples : ETSINumber(t) = s.number

\* (N1, N2, parts) compared as integers; no dash suffix counts as part 0.
PartsOf(t) == IF t[3] = <<>> THEN <<0>> ELSE t[3]

TupleLess(a, b) ==
    \/ a[1] < b[1]
    \/ a[1] = b[1] /\ a[2] < b[2]
    \/ a[1] = b[1] /\ a[2] = b[2] /\ IntsLess(PartsOf(a), PartsOf(b))

\* b is a reordering of a
IsPermutation(a, b) ==
    /\ Len(a) = Len(b)
    /\ \A x \in Range(a) \cup Range(b) :
          Cardinality({i \in 1..Len(a) : a[i] = x}) = Cardinality({i \in 1..Len(b) : b[i] = x})

Matches(q, s) == Contains(Lower(s.number), Lower(q)) \/ Contains(Lower(s.title), Lower(q))

\* C6: a list of EN <N1> <N2>[-<P>...] standards is returned by the sort in
\* non-decreasing order of (N1, N2, parts) compared as integers, and so are
\* the results of a search (the standards that match the query).
C6_ENCompositeOrder ==
    (op \in {"sort", "search"} /\ \A i \in 1..Len(standards) : IsENShaped(standards[i])) =>
        /\ op = "sort" => IsPermutation(standards, out)
        /\ op = "search" =>
              IsPermutation(SelectSeq(standards, LAMBDA s : Matches(query, s)), out)
        /\ \A i, j \in 1..Len(out) :
              i < j => ~TupleLess(ENTupleOf(out[j].number), ENTupleOf(out[i].number))

\* EN 301 489-17, EN 301 489-2 and EN 300 328 handed in in that order come out
\* as EN 300 328, EN 301 489-2, EN 301 489-17.
C6_Witness ==
    /\ op = "sort" /\ Len(standards) = 3
    /\ standards[1].number = ENNumber(<<301, 489, <<17>>>>)
    /\ standards[2].number = ENNumber(<<301, 489, <<2>>>>)
    /\ standards[3].number = ENNumber(<<300, 328, <<>>>>)
    /\ out = <<standards[3], standards[2], standards[1]>>

\* C7: a list of ETSI EN <N1> <N2>[-<P>...] standards is returned by the sort
\* in non-decreasing order of (N1, N2, parts) compared as integers, whatever
\* the order of the input.
C7_ETSICompositeOrder ==
    (op = "sort" /\ \A i \in 1..Len(standards) : IsETSIShaped(standards[i])) =>
        \A i, j \in 1..Len(out) :
            i < j => ~TupleLess(ETSITupleOf(out[j].number), ETSITupleOf(out[i].number))


-----------------------------------------------------------------------------
(* The cache API: the runs of save_to_cache and load_from_cache *)

\* A Standard of the model as the Python object it is.
PyStandard(std) ==
    PyObj(StandardCls, [number |-> PyStr(std.number), version |-> PyStr(std.version),
                       directive |-> PyStr(std.directive), title |-> PyStr(std.title)])

\* The Python object of a Standard as the record of the model.
StandardOf(obj) ==
    [number |-> obj.fields["number"].s, version |-> obj.fields["version"].s,
     directive |-> obj.fields["directive"].s, title |-> obj.fields["title"].s]

Chars1(c) == <<c>>

StdA == Standard(ENNumber(<<300, 328, <<>>>>), V190, RE, NoText)
StdB == Standard(ENNumber(<<301, 489, <<17>>>>), NoText, RE, NoText)

CertInfo ==
    PyObj(CertificateInfoCls,
          [certificate_number |-> PyStr(Chars1("7")), valid_until |-> PyStr(Chars1("8")),
           organization |-> PyStr(Chars1("o")), accreditation_body |-> PyStr(Chars1("b")),
           revision_date |-> PyStr(Chars1("9")), contact_info |-> PyNone])

TestStd(number) ==
    PyObj(TestStandardCls,
          [standard_number |-> PyStr(number), version |-> PyStr(V190),
           category |-> PyStr(Chars1("c")), description |-> PyStr(NoText),
           source |-> PyStr(Chars1("p"))])

Scope(test_standards) ==
    PyObj(AccreditationScopeCls,
          [certificate_info |-> CertInfo, test_standards |-> PyList(test_standards),
           extraction_date |-> PyStr(Chars1("1")), pdf_source |-> PyStr(Chars1("p"))])

\* Payloads json.dump can write as they are.
JsonPayloads ==
    { PyStr(Chars1("v")),
      PyNone,
      PyDict([k \in {"test"} |-> PyStr(Chars1("v"))]),
      PyList(<<PyStr(Chars1("a")), PyDict([k \in {"n"} |-> PyList(<<PyNone>>)])>>),
      PyDict([k \in {"_class_name", "a"} |-> PyStr(Chars1("X"))]),
      PyList(<<PyDict([k \in {"_class_name"} |-> PyStr(StandardCls)])>>) }

\* Payloads made of domain objects.
ObjectPayloads ==
    { PyList(<<PyStandard(StdA), PyStandard(StdB)>>),
      PyStandard(StdA),
      Scope(<<>>),
      Scope(<<TestStd(ENNumber(<<300, 328, <<>>>>))>>) }

Payloads == JsonPayloads \cup ObjectPayloads

CacheKeys == {create_cache_key("test", "key"), create_cache_key("test", "other")}

TickStep == 43200

InitCache ==
    /\ files = [k \in CacheKeys |-> NoFile]
    /\ now = 0
    /\ cres = NoCall
    /\ saved = [k \in CacheKeys |-> None]
    /\ PureIdle /\ FetchIdle /\ ExtractIdle /\ ModulesIdle

SaveToCache(key, data) ==
    /\ files' = save_to_cache(files, key, data, now)
    /\ saved' = [saved EXCEPT ![key] = [data |-> data, at |-> now]]
    /\ cres' = [call |-> "save", key |-> key, value |-> PyNone, at |-> now]
    /\ UNCHANGED <<now, pureVars, fetchVars, extractVars, moduleVars>>

LoadFromCache(key) ==
    /\ cres' = [call |-> "load", key |-> key,
                value |-> load_from_cache(files, key, now), at |-> now]
    /\ files' = CacheAfterLoad(files, key, now)
    /\ UNCHANGED <<now, saved, pureVars, fetchVars, extractVars, moduleVars>>

\* Time passes.
Tick ==
    /\ now < MaxTicks * TickStep
    /\ now' = now + TickStep
    /\ UNCHANGED <<files, pureVars, fetchVars, capiVars, extractVars, moduleVars>>

NextCache ==
    \/ \E key \in CacheKeys, data \in Payloads : SaveToCache(key, data)
    \/ \E key \in CacheKeys : LoadFromCache(key)
    \/ Tick

SpecCache == InitCache /\ [][NextCache]_vars

-----------------------------------------------------------------------------
(* C8 *)

\* The last call loaded a key that had been saved, before / after its expiry.
LoadedBeforeExpiry ==
    /\ cres.call = "load"
    /\ saved[cres.key] # None
    /\ cres.at <= saved[cres.key].at + cache_duration

LoadedAfterExpiry ==
    /\ cres.call = "load"
    /\ saved[cres.key] # None
    /\ cres.at > saved[cres.key].at + cache_duration

\* C8: with the cache enabled, a load of a key before the expiry of what was
\* last saved under it returns a payload equal to the saved one, for every
\* payload json can write; a load after the expiry returns nothing and removes
\* the file.
C8_CacheRoundTrip ==
    /\ (LoadedBeforeExpiry /\ saved[cres.key].data \in JsonPayloads)
          => cres.value = saved[cres.key].data
    /\ LoadedAfterExpiry => (cres.value = PyNone /\ ~files[cres.key].exists)

-----------------------------------------------------------------------------
(* C9 *)

\* C9: a saved AccreditationScope, loaded before expiry, comes back as an
\* AccreditationScope with equal certificate_info, test_standards,
\* extraction_date and pdf_source; a saved list of Standard comes back as an
\* equal list of Standard.
C9_ScopeRoundTrip ==
    (LoadedBeforeExpiry /\ saved[cres.key].data \in ObjectPayloads)
        => cres.value = saved[cres.key].data



-----------------------------------------------------------------------------
(* sample_data.py: the bundled samples (titles shortened to one word) *)

SAMPLE_RE_STANDARDS ==
    << Standard(<<"E", "N", " ", "3", "0", "1", " ", "4", "8", "9", "-", "1", "7">>, <<"V", "3", ".", "3", ".", "1">>, RE, <<"E", "l", "e", "c", "t", "r", "o", "M", "a", "g", "n", "e", "t", "i", "c">>),
       Standard(<<"E", "N", " ", "3", "0", "1", " ", "4", "8", "9", "-", "1">>, <<"V", "2", ".", "2", ".", "3">>, RE, <<"E", "l", "e", "c", "t", "r", "o", "M", "a", "g", "n", "e", "t", "i", "c">>),
       Standard(<<"E", "N", " ", "3", "0", "1", " ", "4", "8", "9", "-", "3">>, <<"V", "2", ".", "1", ".", "1">>, RE, <<"E", "l", "e", "c", "t", "r", "o", "M", "a", "g", "n", "e", "t", "i", "c">>),
       Standard(<<"E", "N", " ", "3", "0", "0", " ", "3", "2", "8">>, <<"V", "2", ".", "2", ".", "2">>, RE, <<"W", "i", "d", "e", "b", "a", "n", "d">>),
       Standard(<<"E", "N", " ", "3", "0", "1", " ", "8", "9", "3">>, <<"V", "2", ".", "1", ".", "1">>, RE, <<"R", "L", "A", "N">>),
       Standard(<<"E", "N", " ", "3", "0", "2", " ", "0", "6", "5", "-", "1">>, <<"V", "2", ".", "1", ".", "1">>, RE, <<"S", "h", "o", "r", "t">>),
       Standard(<<"E", "N", " ", "3", "0", "0", " ", "2", "2", "0", "-", "1">>, <<"V", "3", ".", "1", ".", "1">>, RE, <<"S", "h", "o", "r", "t">>),
       Standard(<<"E", "N", " ", "3", "0", "3", " ", "4", "1", "3">>, <<"V", "1", ".", "1", ".", "1">>, RE, <<"S", "a", "t", "e", "l", "l", "i", "t", "e">>) >>

SAMPLE_EMC_STANDARDS ==
    << Standard(<<"E", "N", " ", "5", "5", "0", "3", "2">>, <<"V", "2", "0", "1", "0", "+", "A", "1", "1", ":", "2", "0", "2", "0">>, EMC, <<"E", "l", "e", "c", "t", "r", "o", "m", "a", "g", "n", "e", "t", "i", "c">>),
       Standard(<<"E", "N", " ", "6", "1", "0", "0", "0", "-", "4", "-", "2">>, <<"V", "2", "0", "0", "8", "+", "A", "1", ":", "2", "0", "1", "3">>, EMC, <<"E", "l", "e", "c", "t", "r", "o", "m", "a", "g", "n", "e", "t", "i", "c">>),
       Standard(<<"E", "N", " ", "6", "1", "0", "0", "0", "-", "4", "-", "3">>, <<"V", "2", "0", "0", "6", "+", "A", "1", ":", "2", "0", "0", "7", "+", "A", "2", ":", "2", "0", "1", "0">>, EMC, <<"E", "l", "e", "c", "t", "r", "o", "m", "a", "g", "n", "e", "t", "i", "c">>) >>

SAMPLE_LVD_STANDARDS ==
    << Standard(<<"E", "N", " ", "6", "2", "3", "6", "8", "-", "1">>, <<"V", "2", "0", "1", "4", "+", "A", "1", "1", ":", "2", "0", "1", "7">>, LVD, <<"A", "u", "d", "i", "o">>),
       Standard(<<"E", "N", " ", "6", "0", "9", "5", "0", "-", "1">>, <<"V", "2", "0", "0", "6", "+", "A", "1", "1", ":", "2", "0", "0", "9", "+", "A", "1", ":", "2", "0", "1", "0", "+", "A", "1", "2", ":", "2", "0", "1", "1", "+", "A", "2", ":", "2", "0", "1", "3">>, LVD, <<"I", "n", "f", "o", "r", "m", "a", "t", "i", "o", "n">>) >>

get_sample_standards == [d \in {RE, EMC, LVD} |->
    IF d = RE THEN SAMPLE_RE_STANDARDS
    ELSE IF d = EMC THEN SAMPLE_EMC_STANDARDS
    ELSE SAMPLE_LVD_STANDARDS]

\* No sample for any directive (a mutant).
get_sample_standards_none(directive) == <<>>

get_sample_standards_for_directive(directive) ==
    IF Upper(directive) \in DOMAIN get_sample_standards
    THEN get_sample_standards[Upper(directive)]
    ELSE <<>>



-----------------------------------------------------------------------------
(* config.py: the registry load_oj_config builds from oj_config.json; the
   model's registry has one directive with two amendments and an EC webpage
   (LVD), and one with a main document only (MD) *)

ConfiguredDirectives == {LVD, MD}

\* DIRECTIVE_URLS: its keys are the directives the fetcher knows.
directive_urls == ConfiguredDirectives

\* EUR_LEX_URLS
eur_lex_urls == [d \in ConfiguredDirectives |->
    IF d = LVD
    THEN [main |-> "lvd/main", amendments |-> <<"lvd/a1", "lvd/a2">>,
          ec_webpage |-> "lvd/ec"]
    ELSE [main |-> "md/main", amendments |-> <<>>, ec_webpage |-> ""]]

(* The network: what each page holds when it answers *)

\* The standards the EUR-Lex pages of LVD list.
LvdMainPage ==
    <<Standard(ENNumber(<<301, 489, <<17>>>>), V190, LVD, NoText),
      Standard(ENNumber(<<300, 328, <<>>>>), NoText, LVD, NoText)>>
LvdFirstAmendmentPage ==
    <<Standard(ENNumber(<<301, 489, <<17>>>>), V1100, LVD, NoText)>>
LvdSecondAmendmentPage ==
    <<Standard(ENNumber(<<301, 489, <<2>>>>), V15, LVD, NoText)>>

PageStandards(url) ==
    IF url = "lvd/main" THEN LvdMainPage
    ELSE IF url = "lvd/a1" THEN LvdFirstAmendmentPage
    ELSE IF url = "lvd/a2" THEN LvdSecondAmendmentPage
    ELSE <<>>

\* The document links of the EC webpage of LVD, and the standards of the
\* document.
DocumentLinks(ec_url) == <<"lvd/doc.pdf">>
LvdDocument == <<Standard(ENNumber(<<300, 328, <<>>>>), V190, LVD, NoText)>>
DocumentStandards(doc_url) == LvdDocument

\* How a page answers during one call: "full" and "empty" answer at once
\* (with and without standards), "flaky" fails the first attempt, "down"
\* fails every attempt.
MainKinds == {"full", "empty", "flaky", "down"}
FirstAmendmentKinds == {"full", "down"}
LaterAmendmentKinds == {"full", "empty"}
ECKinds == {"full", "down"}

NoEnv == [main |-> "none", am |-> <<>>, ec |-> "none"]

EnvsOf(directive) ==
    IF directive = LVD
    THEN [main : MainKinds,
          am : {<<a, b>> : a \in FirstAmendmentKinds, b \in LaterAmendmentKinds},
          ec : ECKinds]
    ELSE IF directive = MD
    THEN [main : {"empty", "down"}, am : {<<>>}, ec : {"none"}]
    ELSE {NoEnv}

(* utils.retry_on_failure and the pages it wraps *)

MaxAttempts == 3

\* Whether attempt i of a request to a page of this kind raises.
AttemptRaises(kind, i) == kind = "down" \/ (kind = "flaky" /\ i = 1)

\* retry_on_failure: the attempts made, and whether the last one raised.
retry_on_failure(kind) ==
    LET good == {i \in 1..MaxAttempts : ~AttemptRaises(kind, i)}
    IN  IF good = {} THEN [raised |-> TRUE, attempts |-> MaxAttempts]
        ELSE [raised |-> FALSE,
              attempts |-> CHOOSE i \in good : \A j \in good : i <= j]

\* _parse_eur_lex_page under its decorator: every attempt requests the url.
parse_eur_lex_page(url, kind, directive) ==
    LET r == retry_on_failure(kind)
    IN  [raised |-> r.raised,
         standards |-> IF ~r.raised /\ kind # "empty"
                       THEN PageStandards(url) ELSE <<>>,
         io |-> [i \in 1..r.attempts |-> url]]

\* The try block of _fetch_from_eur_lex: the main document, then the
\* amendments; the first page that raises ends it with no standards at all.
RECURSIVE EurLexPages(_, _, _, _, _)
EurLexPages(urls, kinds, directive, standards_, io) ==
    IF urls = <<>>
    THEN [standards |-> deduplicate_standards(standards_), io |-> io]
    ELSE LET page == parse_eur_lex_page(Head(urls), Head(kinds), directive)
         IN  IF page.raised
             THEN [standards |-> <<>>, io |-> io \o page.io]
             ELSE EurLexPages(Tail(urls), Tail(kinds), directive,
                              standards_ \o page.standards, io \o page.io)

fetch_from_eur_lex(directive, env) ==
    IF directive \notin DOMAIN eur_lex_urls
    THEN [standards |-> <<>>, io |-> <<>>]
    ELSE LET eur_lex_config == eur_lex_urls[directive]
         IN  EurLexPages(<<eur_lex_config.main>> \o eur_lex_config.amendments,
                         <<env.main>> \o env.am, directive, <<>>, <<>>)

\* _parse_document: one request; its own failures are swallowed.
RECURSIVE ParseDocuments(_, _)
ParseDocuments(links, directive) ==
    IF links = <<>> THEN [standards |-> <<>>, io |-> <<>>]
    ELSE LET rest == ParseDocuments(Tail(links), directive)
         IN  [standards |-> DocumentStandards(Head(links)) \o rest.standards,
              io |-> <<Head(links)>> \o rest.io]

fetch_from_ec_webpage(directive, env) ==
    IF directive \notin DOMAIN eur_lex_urls
    THEN [standards |-> <<>>, io |-> <<>>]
    ELSE LET ec_url == eur_lex_urls[directive].ec_webpage
         IN  IF ec_url = "" THEN [standards |-> <<>>, io |-> <<>>]
             ELSE IF env.ec # "full" THEN [standards |-> <<>>, io |-> <<ec_url>>]
             ELSE LET docs == ParseDocuments(DocumentLinks(ec_url), directive)
                  IN  [standards |-> deduplicate_standards(docs.standards),
                       io |-> <<ec_url>> \o docs.io]



-----------------------------------------------------------------------------
(* oj_checker.py: fetch_standards *)

NoError == <<>>

\* ProcessingResult, with the I/O the call did and the cache it leaves.
Outcome(success, data, error_message, io, dir) ==
    [success |-> success, data |-> data, error_message |-> error_message,
     io |-> io, files |-> dir]

\* A list of Standard as the Python list the cache is given, and back.
PyStandards(stds) == PyList([i \in DOMAIN stds |-> PyStandard(stds[i])])
StandardsOf(value) == [i \in DOMAIN value.items |-> StandardOf(value.items[i])]

\* The cached value is never used (a mutant).
CacheNeverHits(value) == FALSE

\* if cached_data: None and the empty list are false.
Truthy(value) == value # PyNone /\ ~(value.t = "list" /\ value.items = <<>>)

\* No directive is rejected (a mutant).
RejectsNothing(directive) == FALSE

\* if directive not in self.directive_urls
RejectsDirective(directive) == directive \notin directive_urls

\* Steps 4 and 5: the list is sorted, saved under the key and returned.
SortedAndSaved(directive, stds, io, dir, clock) ==
    Outcome(TRUE, stds, NoError, io \o <<"cache_write">>,
            save_to_cache(dir, create_cache_key("oj_standards", directive),
                          PyStandards(stds), clock))

\* The fallback: the bundled samples, sorted and saved, or the failure.
SampleFallback(directive, sample_standards, io, dir, clock) ==
    IF sample_standards # <<>>
    THEN SortedAndSaved(directive, sort_standards_by_number(sample_standards),
                        io, dir, clock)
    ELSE Outcome(FALSE, <<>>, <<"No standards found for ", directive>>, io, dir)

\* Step 3 on: what the two sources found is deduplicated, sorted and saved;
\* when they found nothing the samples are looked up.
MergeSources(directive, found, io, dir, clock) ==
    IF found # <<>>
    THEN SortedAndSaved(directive,
                        sort_standards_by_number(deduplicate_standards(found)),
                        io, dir, clock)
    ELSE SampleFallback(directive, get_sample_standards_for_directive(directive),
                        io \o <<"sample">>, dir, clock)

\* The cache is used when it holds something; otherwise steps 1 and 2: EUR-Lex,
\* then the EC webpage, both always.
CachedOrFresh(directive, cached_data, eur_lex, ec, dir, clock) ==
    IF Truthy(cached_data)
    THEN Outcome(TRUE, StandardsOf(cached_data), NoError, <<"cache_read">>, dir)
    ELSE MergeSources(directive, eur_lex.standards \o ec.standards,
                      <<"cache_read">> \o eur_lex.io \o ec.io, dir, clock)

fetch_standards(directive, env, dir, clock) ==
    IF RejectsDirective(directive)
    THEN Outcome(FALSE, <<>>, <<"Unknown directive: ", directive>>, <<>>, dir)
    ELSE CachedOrFresh(directive,
                       load_from_cache(dir, create_cache_key("oj_standards", directive), clock),
                       fetch_from_eur_lex(directive, env),
                       fetch_from_ec_webpage(directive, env),
                       CacheAfterLoad(dir, create_cache_key("oj_standards", directive), clock),
                       clock)

(* The fetcher: the runs of fetch_standards against the network and the cache *)

Directives == ConfiguredDirectives \cup {ZZ}

OjKeys == {create_cache_key("oj_standards", d) : d \in Directives}

\* The requests of a call: what it did beyond reading and writing the cache
\* and looking up the samples.
Requests(io) == SelectSeq(io, LAMBDA e : e \notin {"cache_read", "cache_write", "sample"})

\* The answers of the network a call can meet: none when it makes no request.
NetworkFor(directive) ==
    IF RejectsDirective(directive)
       \/ Truthy(load_from_cache(files, create_cache_key("oj_standards", directive), now))
    THEN {NoEnv}
    ELSE EnvsOf(directive)

InitFetch ==
    /\ files = [k \in OjKeys |-> NoFile]
    /\ now = 0
    /\ res = NoCall
    /\ prev = None
    /\ okHist = [d \in Directives |-> None]
    /\ PureIdle /\ CapiIdle /\ ExtractIdle /\ ModulesIdle

FetchStandards(directive, env) ==
    \E r \in {fetch_standards(directive, env, files, now)} :
        /\ res' = [call |-> "fetch", directive |-> directive, at |-> now,
                   env |-> env,
                   success |-> r.success, data |-> r.data,
                   error_message |-> r.error_message, io |-> r.io]
        /\ files' = r.files
        /\ prev' = okHist[directive]
        /\ okHist' = IF r.success /\ r.io # <<"cache_read">>
                     THEN [okHist EXCEPT ![directive] = [data |-> r.data, at |-> now]]
                     ELSE okHist
        /\ UNCHANGED <<now, pureVars, capiVars, extractVars, moduleVars>>

NextFetch ==
    \/ \E directive \in Directives : \E env \in NetworkFor(directive) :
           FetchStandards(directive, env)
    \/ Tick

SpecFetch == InitFetch /\ [][NextFetch]_vars



-----------------------------------------------------------------------------
(* C1 *)

\* Every EUR-Lex page of the call and the EC webpage failed or held nothing.
LiveSourcesDead(env) ==
    /\ env.main \in {"empty", "down"}
    /\ \A i \in DOMAIN env.am : env.am[i] \in {"empty", "down"}
    /\ env.ec \in {"empty", "down", "none"}

\* The last call was a fetch of a configured directive that missed the cache.
FetchMissed ==
    /\ res.call = "fetch"
    /\ res.directive \in ConfiguredDirectives
    /\ res.io # <<"cache_read">>

-----------------------------------------------------------------------------
(* C2 *)

\* The sources configured for a directive, in declared order.
SourceUrls(directive) ==
    LET cfg == eur_lex_urls[directive]
    IN  <<cfg.main>> \o cfg.amendments
            \o (IF cfg.ec_webpage = "" THEN <<>> ELSE <<cfg.ec_webpage>>)

\* Each source was requested, and in the order given.
AttemptedInOrder(io, urls) ==
    /\ \A i \in DOMAIN urls : \E p \in DOMAIN io : io[p] = urls[i]
    /\ \A i, j \in DOMAIN urls : \A p, q \in DOMAIN io :
          (i < j /\ io[p] = urls[i] /\ io[q] = urls[j]) => p < q

\* The standards the sources of the call held where they answered.
Yielded(directive, env) ==
    LET cfg == eur_lex_urls[directive]
    IN  (IF env.main \in {"full", "flaky"} THEN Range(PageStandards(cfg.main)) ELSE {})
        \cup UNION {IF env.am[i] \in {"full", "flaky"}
                    THEN Range(PageStandards(cfg.amendments[i])) ELSE {}
                    : i \in DOMAIN env.am}
        \cup (IF env.ec = "full" THEN Range(LvdDocument) ELSE {})

\* C2: on a cache miss every configured source is attempted - the main
\* document, each amendment in declared order, the EC webpage - whatever
\* became of the earlier ones, and the result holds the standard numbers of
\* every source that yielded any.
C2_AllSourcesMerged ==
    FetchMissed
        => /\ AttemptedInOrder(res.io, SourceUrls(res.directive))
           /\ \A s \in Yielded(res.directive, res.env) :
                 \E i \in DOMAIN res.data : res.data[i].number = s.number

-----------------------------------------------------------------------------
(* C3 *)

\* The last call was a fetch of a directive whose earlier freshly fetched
\* success had not expired.
FetchedAgainBeforeExpiry ==
    /\ res.call = "fetch"
    /\ prev # None
    /\ res.at <= prev.at + cache_duration

\* C3: once a fetch of a directive has returned success, every later fetch of
\* it before the entry expires returns success with an equal list, and does
\* nothing but read the cache: no request, no sample lookup; also when the
\* first result was the sample fallback.
C3_CacheShortCircuit ==
    FetchedAgainBeforeExpiry
        => /\ res.success
           /\ res.data = prev.data
           /\ res.io = <<"cache_read">>

\* A later fetch of LVD, at another time, after the sample fallback.
C3_Witness ==
    /\ FetchedAgainBeforeExpiry
    /\ res.directive = LVD
    /\ res.at > prev.at
    /\ IsPermutation(prev.data, SAMPLE_LVD_STANDARDS)
    /\ res.io = <<"cache_read">>

-----------------------------------------------------------------------------
(* C4 *)

\* C4: a fetch of a directive that is not configured returns a failure whose
\* error names the directive, without any I/O - no cache read or write, no
\* request, no sample lookup - and leaves the cache as it was.
C4_UnknownRejected ==
    [][(res' # res /\ res'.call = "fetch" /\ res'.directive \notin ConfiguredDirectives)
          => /\ ~res'.success
             /\ res'.data = <<>>
             /\ res'.error_message = <<"Unknown directive: ", res'.directive>>
             /\ res'.io = <<>>
             /\ files' = files]_vars

\* ZZ fetched while the cache holds an entry.
C4_Witness ==
    /\ res.call = "fetch" /\ res.directive = ZZ /\ ~res.success
    /\ \E k \in DOMAIN files : files[k].exists



-----------------------------------------------------------------------------
(* iso17025_extractor.py: extract_from_pdf *)

\* What a path can hold: a PDF with a text layer, a scanned PDF, nothing.
TextPdf == "text-pdf"
OtherTextPdf == "other-text-pdf"
ScannedPdf == "scanned-pdf"
Missing == "missing"

Contents == {TextPdf, OtherTextPdf, ScannedPdf, Missing}
Paths == {"scope.pdf", "copy.pdf"}

\* utils.get_file_hash: the md5 of the bytes, modelled by the bytes; the empty
\* string when the file cannot be read.
get_file_hash(fs, file_path) == IF fs[file_path] = Missing THEN "" ELSE fs[file_path]

ScopeKeys == {create_cache_key("iso17025_scope", h) : h \in (Contents \ {Missing}) \cup {""}}

\* _extract_text_from_pdf: whether it finds any text.
HasTextLayer(content) == content \in {TextPdf, OtherTextPdf}

\* _parse_scope_text on the text of the document.
parse_scope_text(content) ==
    IF content = TextPdf THEN <<TestStd(ENNumber(<<300, 328, <<>>>>))>>
    ELSE IF content = OtherTextPdf THEN <<TestStd(ENNumber(<<301, 489, <<17>>>>))>>
    ELSE <<>>

\* _extract_certificate_info: the fields it cannot find stay empty.
extract_certificate_info(content) ==
    PyObj(CertificateInfoCls,
          [certificate_number |-> PyStr(IF content = ScannedPdf THEN NoText ELSE Chars1("7")),
           valid_until |-> PyStr(NoText), organization |-> PyStr(NoText),
           accreditation_body |-> PyStr(NoText), revision_date |-> PyStr(NoText),
           contact_info |-> PyNone])

ExtractOutcome(success, data, error_message, io, dir) ==
    [success |-> success, data |-> data, error_message |-> error_message,
     io |-> io, files |-> dir]

\* extract_from_pdf(pdf_path); ocr_ok: whether the OCR pass works when it is
\* run (the handler of its failure calls _error_result, which the class does
\* not define: the outer handler returns the failure).
extract_from_pdf(fs, pdf_path, ocr_ok, dir, clock) ==
    LET file_hash == get_file_hash(fs, pdf_path)
        cache_key == create_cache_key("iso17025_scope", file_hash)
        cached_data == load_from_cache(dir, cache_key, clock)
        dir1 == CacheAfterLoad(dir, cache_key, clock)
        content == fs[pdf_path]
        scope == PyObj(AccreditationScopeCls,
                       [certificate_info |-> extract_certificate_info(content),
                        test_standards |-> PyList(parse_scope_text(content)),
                        extraction_date |-> PyStr(Dec(clock)),
                        pdf_source |-> PyStr(<<pdf_path>>)])
    IN  IF Truthy(cached_data)
        THEN ExtractOutcome(TRUE, cached_data, NoError, <<"cache_read">>, dir1)
        ELSE IF HasTextLayer(content)
        THEN ExtractOutcome(TRUE, scope, NoError, <<"cache_read", "extract_text">>, dir1)
        ELSE IF content = ScannedPdf /\ ocr_ok
        THEN ExtractOutcome(TRUE, scope, NoError,
                            <<"cache_read", "extract_text", "ocr">>, dir1)
        ELSE ExtractOutcome(FALSE, PyNone, <<"Failed to extract scope: ">>,
                            <<"cache_read", "extract_text", "ocr">>, dir1)

(* The extractor: the runs of extract_from_pdf over a file system *)

InitExtract ==
    /\ pdfs \in [Paths -> Contents]
    /\ files = [k \in ScopeKeys |-> NoFile]
    /\ now = 0
    /\ xres = NoCall
    /\ xdone = {}
    /\ PureIdle /\ FetchIdle /\ CapiIdle /\ ModulesIdle

ExtractFromPdf(pdf_path, ocr_ok) ==
    \E r \in {extract_from_pdf(pdfs, pdf_path, ocr_ok, files, now)} :
        /\ xres' = [call |-> "extract", path |-> pdf_path,
                    hash |-> get_file_hash(pdfs, pdf_path), at |-> now,
                    seenBefore |-> get_file_hash(pdfs, pdf_path) \in xdone,
                    success |-> r.success, data |-> r.data,
                    error_message |-> r.error_message, io |-> r.io]
        /\ files' = r.files
        /\ xdone' = IF r.success THEN xdone \cup {get_file_hash(pdfs, pdf_path)} ELSE xdone
        /\ UNCHANGED <<pdfs, now, pureVars, fetchVars, capiVars, moduleVars>>

NextExtract ==
    \/ \E pdf_path \in Paths, ocr_ok \in BOOLEAN : ExtractFromPdf(pdf_path, ocr_ok)
    \/ Tick

SpecExtract == InitExtract /\ [][NextExtract]_vars

-----------------------------------------------------------------------------
(* C10 *)

\* C10: once an extraction has returned success the scope is in the cache
\* under the key of the file's content hash, and a later extraction of a file
\* with the same content, at the same or another path, returns it from the
\* cache without extracting text or running OCR (looked at within the first
\* cache_duration seconds, when nothing stored can have expired).
C10_ScopeCached ==
    /\ (xres.call = "extract" /\ xres.success)
          => files[create_cache_key("iso17025_scope", xres.hash)].exists
    /\ (xres.call = "extract" /\ xres.seenBefore /\ xres.at <= cache_duration)
          => (xres.success /\ xres.io = <<"cache_read">>)



-----------------------------------------------------------------------------
(* utils.py: normalize_standard_number and calculate_similarity *)

MaxText == 5

\* \s, among the characters of the model
IsSpace(c) == c = " "

\* \w
IsWord(c) == IsDigit(c) \/ IsLower(c) \/ IsUpperCase(c) \/ c = "_"

\* What [^\w\s\-.:/()\[\]] does not match
IsKept(c) == IsWord(c) \/ IsSpace(c) \/ c \in {"-", ".", ":", "/", "(", ")", "[", "]"}

\* re.sub(r'\s+', ' ', s): every run of whitespace becomes one space.
RECURSIVE CollapseWhitespace(_)
CollapseWhitespace(s) ==
    IF s = <<>> THEN <<>>
    ELSE IF IsSpace(Head(s)) THEN <<" ">> \o CollapseWhitespace(LStrip(Tail(s)))
    ELSE <<Head(s)>> \o CollapseWhitespace(Tail(s))

\* re.sub(r'[^\w\s\-.:/()\[\]]', '', s)
RemoveOtherCharacters(s) == SelectSeq(s, IsKept)

\* utils.normalize_standard_number: strip, collapse the whitespace, then
\* remove the other characters - in that order.
utils_normalize_standard_number(standard_number) ==
    IF standard_number = <<>> THEN <<>>
    ELSE RemoveOtherCharacters(CollapseWhitespace(Strip(standard_number)))

\* TestStandard(standard_number, version, category, description, source):
\* __post_init__ normalizes the number with Standard.normalize_standard_number
\* (category and source are read by no operation of the model).
TestStandard(standard_number, version, description) ==
    [standard_number |-> normalize_standard_number(standard_number),
     version |-> version, description |-> description]

\* The strings handed to the normalizations: a word character, the space and
\* a character outside the allowed set, up to MaxText characters.
TextPool == SeqsUpTo({"A", " ", "#"}, MaxText)

(* The normalizations: the runs of utils.normalize_standard_number and of the
   constructors of Standard and TestStandard over one string *)

InitText ==
    /\ query \in TextPool
    /\ standards = <<>> /\ out = <<>> /\ op = "none"
    /\ CacheIdle /\ FetchIdle /\ CapiIdle /\ ExtractIdle /\ ModulesIdle

NormalizeStandardNumber ==
    /\ op = "none"
    /\ out' = utils_normalize_standard_number(query)
    /\ op' = "normalize"
    /\ UNCHANGED <<standards, query, cacheVars, fetchVars, capiVars, extractVars, moduleVars>>

\* The result of the call is normalized once more.
NormalizeAgain ==
    /\ op = "normalize"
    /\ query' = out
    /\ out' = utils_normalize_standard_number(out)
    /\ op' = "normalize again"
    /\ UNCHANGED <<standards, cacheVars, fetchVars, capiVars, extractVars, moduleVars>>

ConstructStandard ==
    /\ op = "none"
    /\ out' = Standard(query, NoText, RE, NoText)
    /\ op' = "Standard"
    /\ UNCHANGED <<standards, query, cacheVars, fetchVars, capiVars, extractVars, moduleVars>>

ConstructTestStandard ==
    /\ op = "none"
    /\ out' = TestStandard(query, NoText, NoText)
    /\ op' = "TestStandard"
    /\ UNCHANGED <<standards, query, cacheVars, fetchVars, capiVars, extractVars, moduleVars>>

NextText ==
    \/ NormalizeStandardNumber
    \/ NormalizeAgain
    \/ ConstructStandard
    \/ ConstructTestStandard

SpecText == InitText /\ [][NextText]_vars

-----------------------------------------------------------------------------
(* C15 *)

\* No whitespace at either end and no two whitespace characters in a row.
WhitespaceCollapsed(s) ==
    /\ s # <<>> => ~IsSpace(s[1]) /\ ~IsSpace(s[Len(s)])
    /\ \A i \in 1..(Len(s) - 1) : ~(IsSpace(s[i]) /\ IsSpace(s[i + 1]))

\* C15: utils.normalize_standard_number is idempotent - normalizing its result
\* gives the result back - for every string, also one with characters outside
\* the allowed set, and its result has no whitespace at either end and no run
\* of two or more whitespace characters.
C15_NormalizeIdempotent ==
    /\ op = "normalize" => WhitespaceCollapsed(out)
    /\ op = "normalize again" => out = query /\ WhitespaceCollapsed(out)

-----------------------------------------------------------------------------
(* C16 *)

\* C16: the number of a constructed Standard, and the standard_number of a
\* constructed TestStandard, has no whitespace at either end and no two
\* consecutive spaces, for every string given - also with runs of three or
\* more spaces.
C16_NumberCollapsedOnConstruction ==
    /\ op = "Standard" => WhitespaceCollapsed(out.number)
    /\ op = "TestStandard" => WhitespaceCollapsed(out.standard_number)


-----------------------------------------------------------------------------
(* Fractions: the scores, thresholds and percentages of the comparator, as
   numerator and denominator (the denominator positive) *)

FracLess(a, b) == a[1] * b[2] < b[1] * a[2]
FracLeq(a, b) == a[1] * b[2] <= b[1] * a[2]
FracEq(a, b) == a[1] * b[2] = b[1] * a[2]
FracAdd(a, b) == <<a[1] * b[2] + b[1] * a[2], a[2] * b[2]>>
FracMul(a, b) == <<a[1] * b[1], a[2] * b[2]>>
FracMin(a, b) == IF FracLess(b, a) THEN b ELSE a
Zero == <<0, 1>>
One == <<1, 1>>

-----------------------------------------------------------------------------
(* utils.py: calculate_similarity *)

\* set(s)
CharSet(s) == {s[i] : i \in 1..Len(s)}

\* calculate_similarity: 1.0 for equal normalized lower-case strings, else the
\* share of the characters of either string that both strings have.
calculate_similarity(str1, str2) ==
    LET s1 == Lower(utils_normalize_standard_number(str1))
        s2 == Lower(utils_normalize_standard_number(str2))
        common_chars == CharSet(s1) \cap CharSet(s2)
        total_chars == CharSet(s1) \cup CharSet(s2)
    IN  IF s1 = s2 THEN One
        ELSE IF total_chars = {} THEN Zero
        ELSE <<Cardinality(common_chars), Cardinality(total_chars)>>

-----------------------------------------------------------------------------
(* comparator.py: StandardComparator *)

MaxCompare == 2

\* The end of the run of the character c that starts at s[i]; i - 1 when s[i]
\* is another character.
RECURSIVE RunEnd(_, _, _)
RunEnd(s, i, c) == IF i <= Len(s) /\ s[i] = c THEN RunEnd(s, i + 1, c) ELSE i - 1

\* The pattern \\s+ of the source, written in a raw string: a backslash, then
\* one or more letters s. The end of its match at s[i], or 0.
BackslashRunEnd(s, i) ==
    IF i + 1 <= Len(s) /\ s[i] = "\\" /\ s[i + 1] = "s" THEN RunEnd(s, i + 1, "s") ELSE 0

\* The pattern \\s* : a backslash, then any number of letters s.
BackslashStarEnd(s, i) == IF i <= Len(s) /\ s[i] = "\\" THEN RunEnd(s, i + 1, "s") ELSE 0

\* The literal lit at s[i]: its end, or 0.
LiteralEnd(s, i, lit) ==
    IF i >= 1 /\ i + Len(lit) - 1 <= Len(s) /\ SubSeq(s, i, i + Len(lit) - 1) = lit
    THEN i + Len(lit) - 1 ELSE 0

\* re.sub(r'^ETSI\\s+EN\\s+', 'EN ', s)
SubEtsiEnPrefix(s) ==
    LET e1 == LiteralEnd(s, 1, <<"E", "T", "S", "I">>)
        e2 == IF e1 = 0 THEN 0 ELSE BackslashRunEnd(s, e1 + 1)
        e3 == IF e2 = 0 THEN 0 ELSE LiteralEnd(s, e2 + 1, <<"E", "N">>)
        e4 == IF e3 = 0 THEN 0 ELSE BackslashRunEnd(s, e3 + 1)
    IN  IF e4 = 0 THEN s ELSE <<"E", "N", " ">> \o SubSeq(s, e4 + 1, Len(s))

\* re.sub(r'^ETSI\\s+', '', s)
SubEtsiPrefix(s) ==
    LET e1 == LiteralEnd(s, 1, <<"E", "T", "S", "I">>)
        e2 == IF e1 = 0 THEN 0 ELSE BackslashRunEnd(s, e1 + 1)
    IN  IF e2 = 0 THEN s ELSE SubSeq(s, e2 + 1, Len(s))

\* re.sub(r'\\s+', ' ', s)
RECURSIVE SubBackslashRuns(_)
SubBackslashRuns(s) ==
    IF s = <<>> THEN <<>>
    ELSE IF BackslashRunEnd(s, 1) # 0
         THEN <<" ">> \o SubBackslashRuns(SubSeq(s, BackslashRunEnd(s, 1) + 1, Len(s)))
         ELSE <<Head(s)>> \o SubBackslashRuns(Tail(s))

\* The end of the match of \\s*-\\s* at s[1], or 0.
HyphenMatchEnd(s) ==
    LET e1 == BackslashStarEnd(s, 1)
        e2 == IF e1 = 0 THEN 0 ELSE LiteralEnd(s, e1 + 1, <<"-">>)
    IN  IF e2 = 0 THEN 0 ELSE BackslashStarEnd(s, e2 + 1)

\* re.sub(r'\\s*-\\s*', '-', s)
RECURSIVE SubHyphens(_)
SubHyphens(s) ==
    IF s = <<>> THEN <<>>
    ELSE IF HyphenMatchEnd(s) # 0
         THEN <<"-">> \o SubHyphens(SubSeq(s, HyphenMatchEnd(s) + 1, Len(s)))
         ELSE <<Head(s)>> \o SubHyphens(Tail(s))

\* StandardComparator.normalize_standard_number
comparator_normalize_standard_number(standard) ==
    IF standard = <<>> THEN <<>>
    ELSE Strip(SubHyphens(SubBackslashRuns(SubEtsiPrefix(SubEtsiEnPrefix(
             Upper(utils_normalize_standard_number(standard)))))))

\* The bonus of _calculate_match_score: 0.1 for equal non-empty versions, and
\* 0.2 times the similarity of a non-empty title and a non-empty description.
BonusScore(oj_std, iso_std) ==
    FracAdd(IF oj_std.version # <<>> /\ iso_std.version # <<>>
               /\ oj_std.version = iso_std.version
            THEN <<1, 10>> ELSE Zero,
            IF oj_std.title # <<>> /\ iso_std.description # <<>>
            THEN FracMul(calculate_similarity(oj_std.title, iso_std.description), <<1, 5>>)
            ELSE Zero)

\* StandardComparator._calculate_match_score
calculate_match_score(oj_std, iso_std) ==
    IF comparator_normalize_standard_number(oj_std.number)
           = comparator_normalize_standard_number(iso_std.standard_number)
    THEN One
    ELSE FracMin(One,
                 FracAdd(calculate_similarity(
                             comparator_normalize_standard_number(oj_std.number),
                             comparator_normalize_standard_number(iso_std.standard_number)),
                         BonusScore(oj_std, iso_std)))

\* The standards compared
V222 == <<"V", "2", ".", "2", ".", "2">>
TitleRadio == <<"R", "a", "d", "i", "o">>
OjEtsi489 == Standard(ETSINumber(<<301, 489, <<17>>>>), NoText, RE, NoText)
Oj328 == Standard(ENNumber(<<300, 328, <<>>>>), V222, RE, TitleRadio)
Oj328Old == Standard(ENNumber(<<300, 328, <<>>>>), V190, RE, NoText)
OjEn1 == Standard(<<"E", "N", " ", "1">>, NoText, RE, NoText)
Iso489 == TestStandard(ENNumber(<<301, 489, <<17>>>>), NoText, NoText)
Iso328 == TestStandard(ENNumber(<<300, 328, <<>>>>), V222, TitleRadio)
Iso330 == TestStandard(ENNumber(<<300, 330, <<>>>>), V222, TitleRadio)
IsoEn12345 == TestStandard(<<"E", "N", " ", "1", "2", "3", "4", "5">>, NoText, NoText)
OjPool == {OjEtsi489, Oj328, Oj328Old, OjEn1}
IsoPool == {Iso489, Iso328, Iso330, IsoEn12345}

\* Standards with no version and no title, two of them numbered with the same
\* characters in another arrangement.
OjPlain328 == Standard(ENNumber(<<300, 328, <<>>>>), NoText, RE, NoText)
OjPlain280 == Standard(ENNumber(<<303, 280, <<>>>>), NoText, RE, NoText)
IsoPlain328 == TestStandard(ENNumber(<<300, 328, <<>>>>), NoText, NoText)
IsoPlain280 == TestStandard(ENNumber(<<303, 280, <<>>>>), NoText, NoText)
PlainOjPool == {OjPlain328, OjPlain280, OjEtsi489}
PlainIsoPool == {IsoPlain328, IsoPlain280, Iso489}

\* The score of each pair of the pools, computed once by _calculate_match_score.
MatchScores ==
    {<<o, i, calculate_match_score(o, i)>> :
        o \in OjPool \cup PlainOjPool, i \in IsoPool \cup PlainIsoPool}

\* self._calculate_match_score(oj_std, iso_std), looked up
match_score(oj_std, iso_std) ==
    (CHOOSE t \in MatchScores : t[1] = oj_std /\ t[2] = iso_std)[3]

\* Every score reaches the threshold (a mutant).
ReachesAnyThreshold(score, threshold) == TRUE

\* score >= threshold
ReachesThreshold(score, threshold) == FracLeq(threshold, score)

\* The inner loop of compare_standards from iso_standards[j] on: the place of
\* the best match so far (0 for None) and its score.
RECURSIVE BestMatchFrom(_, _, _, _, _, _)
BestMatchFrom(oj_std, iso, threshold, j, best_match, best_score) ==
    IF j > Len(iso) THEN best_match
    ELSE IF /\ FracLess(best_score, match_score(oj_std, iso[j]))
            /\ ReachesThreshold(match_score(oj_std, iso[j]), threshold)
         THEN BestMatchFrom(oj_std, iso, threshold, j + 1, j,
                            match_score(oj_std, iso[j]))
         ELSE BestMatchFrom(oj_std, iso, threshold, j + 1, best_match, best_score)

\* list.remove(x) under "if x in list": the first equal element goes.
RECURSIVE RemoveFirst(_, _)
RemoveFirst(list, x) ==
    IF list = <<>> THEN <<>>
    ELSE IF Head(list) = x THEN Tail(list)
    ELSE <<Head(list)>> \o RemoveFirst(Tail(list), x)

\* The percentage left out (a mutant).
calculate_coverage_as_share(matched_count, total_count) ==
    IF total_count = 0 THEN Zero ELSE <<matched_count, total_count>>

\* StandardComparator._calculate_coverage
calculate_coverage(matched_count, total_count) ==
    IF total_count = 0 THEN Zero
    ELSE FracMul(<<matched_count, total_count>>, <<100, 1>>)

\* ComparisonResult(...)
ComparisonResult(matched, oj_unmatched, iso_unmatched, coverage) ==
    [matched_standards |-> matched, oj_only_standards |-> oj_unmatched,
     iso_only_standards |-> iso_unmatched, coverage_percentage |-> coverage]

\* The outer loop of compare_standards from oj[i] on, then the result.
RECURSIVE CompareFrom(_, _, _, _, _, _, _)
CompareFrom(oj, iso, threshold, i, matched, oj_unmatched, iso_unmatched) ==
    IF i > Len(oj)
    THEN ComparisonResult(matched, oj_unmatched, iso_unmatched,
                          calculate_coverage(Len(matched), Len(oj)))
    ELSE LET best_match == BestMatchFrom(oj[i], iso, threshold, 1, 0, Zero)
         IN  IF best_match = 0
             THEN CompareFrom(oj, iso, threshold, i + 1, matched, oj_unmatched,
                              iso_unmatched)
             ELSE CompareFrom(oj, iso, threshold, i + 1,
                              Append(matched, <<oj[i], iso[best_match]>>),
                              RemoveFirst(oj_unmatched, oj[i]),
                              RemoveFirst(iso_unmatched, iso[best_match]))

\* StandardComparator.compare_standards
compare_standards(oj_standards, iso_standards_, threshold) ==
    CompareFrom(oj_standards, iso_standards_, threshold, 1, <<>>, oj_standards,
                iso_standards_)

\* ComparisonResult.get_summary
get_summary(result) ==
    [total_oj_standards |-> Len(result.oj_only_standards) + Len(result.matched_standards),
     total_iso_standards |-> Len(result.iso_only_standards) + Len(result.matched_standards),
     matched_count |-> Len(result.matched_standards),
     coverage_percentage |-> result.coverage_percentage,
     oj_only_count |-> Len(result.oj_only_standards),
     iso_only_count |-> Len(result.iso_only_standards)]

\* The two loops of find_potential_matches: the triples at or above the threshold.
RECURSIVE PotentialFrom(_, _, _, _, _)
PotentialFrom(oj, iso, threshold, i, j) ==
    IF i > Len(oj) THEN <<>>
    ELSE IF j > Len(iso) THEN PotentialFrom(oj, iso, threshold, i + 1, 1)
    ELSE (IF ReachesThreshold(match_score(oj[i], iso[j]), threshold)
          THEN <<<<oj[i], iso[j], match_score(oj[i], iso[j])>>>>
          ELSE <<>>) \o PotentialFrom(oj, iso, threshold, i, j + 1)

\* list.sort(key=lambda x: x[2], reverse=True): stable, the greater score first.
SortedByScore(potential_matches) ==
    LET n == Len(potential_matches)
        before == [x \in 1..n |-> [y \in 1..n |->
                      FracLess(potential_matches[y][3], potential_matches[x][3])]]
    IN  AtPositions(potential_matches, SortedPositions(n, before))

\* StandardComparator.find_potential_matches
find_potential_matches(oj_standards, iso_standards_, threshold) ==
    SortedByScore(PotentialFrom(oj_standards, iso_standards_, threshold, 1, 1))

\* The thresholds: the default 0.8 of the constructor, and 0.5, the default of
\* find_potential_matches.
DefaultThreshold == <<4, 5>>
PotentialThreshold == <<1, 2>>
Thresholds == {DefaultThreshold, PotentialThreshold}

(* The comparator: the runs of compare_standards and find_potential_matches
   over two lists *)

InitCompare ==
    /\ standards \in SeqsUpTo(OjPool, MaxCompare)
    /\ iso_standards \in SeqsUpTo(IsoPool, MaxCompare)
    /\ similarity_threshold \in Thresholds
    /\ cmp = NoCall
    /\ query = <<>> /\ out = <<>> /\ op = "none"
    /\ config_file = None /\ ValidatorIdle /\ ConfigIdle /\ ToolsIdle
    /\ CacheIdle /\ FetchIdle /\ CapiIdle /\ ExtractIdle

CompareStandards ==
    /\ cmp = NoCall
    /\ \E r \in {compare_standards(standards, iso_standards, similarity_threshold)} :
          cmp' = [call |-> "compare", threshold |-> similarity_threshold,
                  result |-> r, summary |-> get_summary(r), matches |-> <<>>]
    /\ UNCHANGED <<iso_standards, similarity_threshold, pureVars, cacheVars,
                   fetchVars, capiVars, extractVars, config_file, validatorVars,
                   configVars, toolVars>>

FindPotentialMatches(threshold) ==
    /\ cmp = NoCall
    /\ cmp' = [call |-> "find", threshold |-> threshold,
               result |-> None, summary |-> None,
               matches |-> find_potential_matches(standards, iso_standards, threshold)]
    /\ UNCHANGED <<iso_standards, similarity_threshold, pureVars, cacheVars,
                   fetchVars, capiVars, extractVars, config_file, validatorVars,
                   configVars, toolVars>>

NextCompare ==
    \/ CompareStandards
    \/ \E threshold \in Thresholds : FindPotentialMatches(threshold)

SpecCompare == InitCompare /\ [][NextCompare]_vars


-----------------------------------------------------------------------------
(* C11 *)

\* C11: an OJ standard numbered "ETSI " followed by the number "EN ..." of an
\* ISO standard has the same comparator-normalized number as it, scores
\* exactly 1.0 with it, and compare_standards at the default threshold 0.8
\* records the pair - whatever the versions and titles, also empty ones.
C11_EtsiPrefixMatched ==
    (cmp.call = "compare" /\ cmp.threshold = DefaultThreshold) =>
        \A i \in 1..Len(standards), j \in 1..Len(iso_standards) :
            (/\ StartsWith(iso_standards[j].standard_number, <<"E", "N", " ">>)
             /\ standards[i].number
                    = <<"E", "T", "S", "I", " ">> \o iso_standards[j].standard_number)
            => /\ comparator_normalize_standard_number(standards[i].number)
                    = comparator_normalize_standard_number(iso_standards[j].standard_number)
               /\ match_score(standards[i], iso_standards[j]) = One
               /\ \E k \in 1..Len(cmp.result.matched_standards) :
                     cmp.result.matched_standards[k] = <<standards[i], iso_standards[j]>>

-----------------------------------------------------------------------------
(* C12 *)

\* How many places of the list hold an element that satisfies the test.
Count(list, Test(_)) == Cardinality({k \in 1..Len(list) : Test(list[k])})

\* C12: compare_standards records a pair only when its score is at or above
\* the comparator's threshold, and when every pair scores below it nothing is
\* matched and the two unmatched lists are the two inputs;
\* find_potential_matches(oj, iso, t) returns the pairs that score at or above
\* t, each with its score and as often as the inputs hold it, and no others,
\* in non-increasing order of score.
C12_ThresholdBehaviour ==
    /\ cmp.call = "compare" =>
          /\ \A k \in 1..Len(cmp.result.matched_standards) :
                FracLeq(cmp.threshold,
                        match_score(cmp.result.matched_standards[k][1],
                                    cmp.result.matched_standards[k][2]))
          /\ (\A i \in 1..Len(standards), j \in 1..Len(iso_standards) :
                 FracLess(match_score(standards[i], iso_standards[j]), cmp.threshold))
             => /\ cmp.result.matched_standards = <<>>
                /\ cmp.result.oj_only_standards = standards
                /\ cmp.result.iso_only_standards = iso_standards
    /\ cmp.call = "find" =>
          /\ \A k \in 1..Len(cmp.matches) :
                /\ cmp.matches[k][3] = match_score(cmp.matches[k][1], cmp.matches[k][2])
                /\ FracLeq(cmp.threshold, cmp.matches[k][3])
          /\ \A o \in OjPool, i \in IsoPool :
                Count(cmp.matches, LAMBDA m : m[1] = o /\ m[2] = i)
                    = IF FracLeq(cmp.threshold, match_score(o, i))
                      THEN Count(standards, LAMBDA x : x = o)
                               * Count(iso_standards, LAMBDA y : y = i)
                      ELSE 0
          /\ \A k, l \in 1..Len(cmp.matches) :
                k < l => ~FracLess(cmp.matches[k][3], cmp.matches[l][3])

\* EN 1 against EN 12345, which share half of their characters, at the
\* threshold 0.8: nothing is matched and both stay in the unmatched lists.
C12_Witness ==
    /\ cmp.call = "compare"
    /\ cmp.threshold = DefaultThreshold
    /\ standards = <<OjEn1>>
    /\ iso_standards = <<IsoEn12345>>
    /\ FracEq(match_score(OjEn1, IsoEn12345), <<1, 2>>)
    /\ cmp.result.matched_standards = <<>>
    /\ cmp.result.oj_only_standards = <<OjEn1>>
    /\ cmp.result.iso_only_standards = <<IsoEn12345>>

-----------------------------------------------------------------------------
(* C13 *)

\* C13: after a comparison of N OJ standards of which M were matched,
\* coverage_percentage is (M / N) * 100 when N > 0 and 0.0 when N = 0; M is
\* at most N and the percentage lies between 0 and 100.
C13_CoverageArithmetic ==
    cmp.call = "compare" =>
        LET N == Len(standards)
            M == Len(cmp.result.matched_standards)
            coverage == cmp.result.coverage_percentage
        IN  /\ coverage[2] > 0
            /\ N > 0 => coverage[1] * N = M * 100 * coverage[2]
            /\ N = 0 => coverage = Zero
            /\ M <= N
            /\ FracLeq(Zero, coverage) /\ FracLeq(coverage, <<100, 1>>)
            /\ cmp.summary.coverage_percentage = coverage

\* Two OJ standards of which one is matched: 50 percent.
C13_Witness ==
    /\ cmp.call = "compare"
    /\ Len(standards) = 2
    /\ Len(cmp.result.matched_standards) = 1
    /\ FracEq(cmp.result.coverage_percentage, <<50, 1>>)

-----------------------------------------------------------------------------
(* C14 *)

Distinct(list) == \A k, l \in 1..Len(list) : k # l => list[k] # list[l]

\* C14: after a comparison of two lists of pairwise distinct entries, every OJ
\* standard is the OJ side of exactly one matched pair or in oj_only, never
\* both; every ISO standard is the ISO side of exactly one matched pair or in
\* iso_only, never both; and the summary counts len(oj) OJ standards and
\* len(iso) ISO standards.
C14_ComparisonPartitions ==
    (cmp.call = "compare" /\ Distinct(standards) /\ Distinct(iso_standards)) =>
        /\ \A i \in 1..Len(standards) :
              Count(cmp.result.matched_standards, LAMBDA m : m[1] = standards[i])
                  + Count(cmp.result.oj_only_standards, LAMBDA x : x = standards[i]) = 1
        /\ \A j \in 1..Len(iso_standards) :
              Count(cmp.result.matched_standards, LAMBDA m : m[2] = iso_standards[j])
                  + Count(cmp.result.iso_only_standards, LAMBDA y : y = iso_standards[j]) = 1
        /\ cmp.summary.total_oj_standards = Len(standards)
        /\ cmp.summary.total_iso_standards = Len(iso_standards)


-----------------------------------------------------------------------------
(* The registry file oj_config.json, as json.load reads it.

   A dict of the file is a record, a key being there when the record has the
   field; the dict of the directives is the sequence of its items in the
   order of the file, under the kind "dict" (the kind "list" stands for a
   file that has a JSON array there). *)

Absent == [file |-> "absent"]
Unparsable == [file |-> "unparsable"]
Parsed(document) == [file |-> "json", document |-> document]

PyBool(b) == [t |-> "bool", b |-> b]

\* urllib.parse.urlparse, as far as the validator reads it: the scheme is what
\* stands before the first colon when that is a letter followed by letters,
\* digits, "+", "-" or ".", in lower case; the netloc is what follows "//" up
\* to the next "/", "?" or "#".
IsSchemeChar(c) == IsLower(c) \/ IsUpperCase(c) \/ IsDigit(c) \/ c \in {"+", "-", "."}

\* The first place from s[i] on that holds one of the characters, or Len(s) + 1.
RECURSIVE FirstOf(_, _, _)
FirstOf(s, i, chars) ==
    IF i > Len(s) \/ s[i] \in chars THEN i ELSE FirstOf(s, i + 1, chars)

SchemeEnd(url) ==
    LET colon == FirstOf(url, 1, {":"})
    IN  IF /\ colon <= Len(url) /\ colon > 1
           /\ (IsLower(url[1]) \/ IsUpperCase(url[1]))
           /\ \A k \in 1..(colon - 1) : IsSchemeChar(url[k])
        THEN colon ELSE 0

urlparse(url) ==
    LET colon == SchemeEnd(url)
        rest == SubSeq(url, colon + 1, Len(url))
        slashes == StartsWith(rest, <<"/", "/">>)
    IN  [scheme |-> IF colon = 0 THEN <<>> ELSE Lower(SubSeq(url, 1, colon - 1)),
         netloc |-> IF slashes
                    THEN SubSeq(rest, 3, FirstOf(rest, 3, {"/", "?", "#"}) - 1)
                    ELSE <<>>]

eur_lex_europa_eu == <<"e", "u", "r", "-", "l", "e", "x", ".", "e", "u", "r", "o", "p", "a", ".", "e", "u">>
single_market_economy_ec_europa_eu == <<"s", "i", "n", "g", "l", "e", "-", "m", "a", "r", "k", "e", "t", "-", "e", "c", "o", "n", "o", "m", "y", ".", "e", "c", ".", "e", "u", "r", "o", "p", "a", ".", "e", "u">>

\* The URLs of the model
EurLexUrl == <<"h", "t", "t", "p", "s", ":", "/", "/", "e", "u", "r", "-", "l", "e", "x", ".", "e", "u", "r", "o", "p", "a", ".", "e", "u", "/", "a">>
CommissionUrl == <<"h", "t", "t", "p", "s", ":", "/", "/", "s", "i", "n", "g", "l", "e", "-", "m", "a", "r", "k", "e", "t", "-", "e", "c", "o", "n", "o", "m", "y", ".", "e", "c", ".", "e", "u", "r", "o", "p", "a", ".", "e", "u", "/", "b">>
ForeignUrl == <<"h", "t", "t", "p", "s", ":", "/", "/", "e", "x", "a", "m", "p", "l", "e", ".", "c", "o", "m", "/", "c">>
LookalikeUrl == <<"h", "t", "t", "p", "s", ":", "/", "/", "e", "u", "r", "-", "l", "e", "x", ".", "e", "u", "r", "o", "p", "a", ".", "e", "u", ".", "e", "x", "a", "m", "p", "l", "e", ".", "c", "o", "m", "/", "d">>
FtpUrl == <<"f", "t", "p", ":", "/", "/", "e", "u", "r", "-", "l", "e", "x", ".", "e", "u", "r", "o", "p", "a", ".", "e", "u", "/", "e">>
NoSchemeUrl == <<"e", "u", "r", "-", "l", "e", "x", ".", "e", "u", "r", "o", "p", "a", ".", "e", "u", "/", "f">>


-----------------------------------------------------------------------------
(* oj_config_validator.py: OJConfigValidator *)

\* An entry of self.errors or self.warnings: the text of the message, and the
\* directive, the place, the amendment index, the field and the value it names.
Finding(text, directive, place, index, field, value) ==
    [text |-> text, directive |-> directive, place |-> place, index |-> index,
     field |-> field, value |-> value]

\* The two lists while a validation runs; raised when an exception ended it.
Lists(errors_, warnings_) == [errors |-> errors_, warnings |-> warnings_, raised |-> FALSE]
AddError(st, finding) == [st EXCEPT !.errors = Append(@, finding)]
AddWarning(st, finding) == [st EXCEPT !.warnings = Append(@, finding)]

\* The required fields that the dict lacks, in the order of the list.
MissingFields(required_fields, dict) ==
    SelectSeq(required_fields, LAMBDA field : field \notin DOMAIN dict)

\* One error for each of the fields.
RECURSIVE AddMissing(_, _, _, _, _, _)
AddMissing(st, text, directive, place, index, fields) ==
    IF fields = <<>> THEN st
    ELSE AddMissing(AddError(st, Finding(text, directive, place, index, Head(fields), <<>>)),
                    text, directive, place, index, Tail(fields))

\* re.match(r'^\d+\.\d+$', s)
IsVersionFormat(s) ==
    LET parts == SplitOn(s, ".", <<>>)
    IN  Len(parts) = 2 /\ AllDigits(parts[1]) /\ AllDigits(parts[2])

\* re.match(r'^\d{4}-\d{2}-\d{2}$', s)
IsDateFormat(s) ==
    LET parts == SplitOn(s, "-", <<>>)
    IN  /\ Len(parts) = 3
        /\ AllDigits(parts[1]) /\ Len(parts[1]) = 4
        /\ AllDigits(parts[2]) /\ Len(parts[2]) = 2
        /\ AllDigits(parts[3]) /\ Len(parts[3]) = 2

\* re.match(r'^[A-Z]+$', s)
IsUpperLetters(s) == s # <<>> /\ \A k \in 1..Len(s) : IsUpperCase(s[k])

\* re.match(r'^\d{4}/\d+/EU$', s)
IsDirectiveNumberFormat(s) ==
    LET parts == SplitOn(s, "/", <<>>)
    IN  /\ Len(parts) = 3
        /\ AllDigits(parts[1]) /\ Len(parts[1]) = 4
        /\ AllDigits(parts[2])
        /\ parts[3] = <<"E", "U">>

\* OJConfigValidator._validate_top_level
validate_top_level(st, config) ==
    LET st1 == AddMissing(st, "Missing required top-level field", <<>>, "", -1,
                          MissingFields(<<"version", "last_updated", "description",
                                          "directives">>, config))
        st2 == IF "version" \in DOMAIN config /\ ~IsVersionFormat(config.version)
               THEN AddWarning(st1, Finding("Version format should be X.Y", <<>>, "", -1,
                                            "version", config.version))
               ELSE st1
    IN  IF "last_updated" \in DOMAIN config /\ ~IsDateFormat(config.last_updated)
        THEN AddWarning(st2, Finding("Date format should be YYYY-MM-DD", <<>>, "", -1,
                                     "last_updated", config.last_updated))
        ELSE st2

\* OJConfigValidator._validate_url; the context is the directive, the place
\* and the amendment index.
validate_url(st, url, directive, place, index) ==
    IF url = <<>>
    THEN AddError(st, Finding("URL cannot be empty", directive, place, index, "", url))
    ELSE LET parsed == urlparse(url)
         IN  IF parsed.scheme = <<>> \/ parsed.netloc = <<>>
             THEN AddError(st, Finding("Invalid URL format", directive, place, index, "", url))
             ELSE IF parsed.scheme \notin {<<"h", "t", "t", "p">>, <<"h", "t", "t", "p", "s">>}
             THEN AddWarning(st, Finding("URL should use HTTP/HTTPS", directive, place,
                                         index, "", url))
             ELSE IF /\ ~Contains(parsed.netloc, eur_lex_europa_eu)
                     /\ ~Contains(parsed.netloc, single_market_economy_ec_europa_eu)
             THEN AddWarning(st, Finding("URL should be from official EU domains",
                                         directive, place, index, "", url))
             ELSE st

\* OJConfigValidator._validate_amendment
validate_amendment(st, directive_code, index, amendment) ==
    LET st1 == AddMissing(st, "Missing required field", directive_code, "amendment", index,
                          MissingFields(<<"url", "date", "description">>, amendment))
        st2 == IF "url" \in DOMAIN amendment
               THEN validate_url(st1, amendment.url, directive_code, "amendment URL", index)
               ELSE st1
    IN  IF /\ "date" \in DOMAIN amendment
           /\ amendment.date # <<"T", "B", "D">>
           /\ ~IsDateFormat(amendment.date)
        THEN AddWarning(st2, Finding("Date format should be YYYY-MM-DD or 'TBD'",
                                     directive_code, "amendment", index, "date",
                                     amendment.date))
        ELSE st2

\* The loop over enumerate(amendments), from the index on.
RECURSIVE validate_amendments(_, _, _, _)
validate_amendments(st, directive_code, amendments, index) ==
    IF index >= Len(amendments) THEN st
    ELSE validate_amendments(
             validate_amendment(st, directive_code, index, amendments[index + 1]),
             directive_code, amendments, index + 1)

\* OJConfigValidator._validate_oj_links (amendments, where the key is there,
\* is a list in every file of the model)
validate_oj_links(st, directive_code, oj_links) ==
    LET st1 == AddMissing(st, "Missing required field", directive_code, "OJ links", -1,
                          MissingFields(<<"main", "amendments">>, oj_links))
        st2 == IF "main" \in DOMAIN oj_links
               THEN validate_url(st1, oj_links.main, directive_code, "main OJ URL", -1)
               ELSE st1
    IN  IF "amendments" \in DOMAIN oj_links
        THEN validate_amendments(st2, directive_code, oj_links.amendments, 0)
        ELSE st2

\* OJConfigValidator._validate_single_directive
validate_single_directive(st, directive_code, directive_data) ==
    LET st1 == AddMissing(st, "Missing required field", directive_code, "", -1,
                          MissingFields(<<"name", "directive_number", "decision",
                                          "ec_webpage", "description", "oj_links">>,
                                        directive_data))
        st2 == IF ~IsUpperLetters(directive_code)
               THEN AddWarning(st1, Finding("Directive code should be uppercase letters only",
                                            directive_code, "", -1, "", directive_code))
               ELSE st1
        st3 == IF /\ "directive_number" \in DOMAIN directive_data
                  /\ ~IsDirectiveNumberFormat(directive_data.directive_number)
               THEN AddWarning(st2, Finding("Directive number format should be YYYY/XX/EU",
                                            directive_code, "", -1, "directive_number",
                                            directive_data.directive_number))
               ELSE st2
        st4 == IF "ec_webpage" \in DOMAIN directive_data
               THEN validate_url(st3, directive_data.ec_webpage, directive_code,
                                 "EC webpage", -1)
               ELSE st3
    IN  IF "oj_links" \in DOMAIN directive_data
        THEN validate_oj_links(st4, directive_code, directive_data.oj_links)
        ELSE st4

\* The loop over directives.items()
RECURSIVE validate_each_directive(_, _)
validate_each_directive(st, items) ==
    IF items = <<>> THEN st
    ELSE validate_each_directive(
             validate_single_directive(st, Head(items).code, Head(items).data),
             Tail(items))

\* OJConfigValidator._validate_directives: a JSON array that is not empty has
\* no items() - AttributeError.
validate_directives(st, directives) ==
    IF directives.items = <<>>
    THEN AddError(st, Finding("No directives configured", <<>>, "", -1, "", <<>>))
    ELSE IF directives.kind # "dict" THEN [st EXCEPT !.raised = TRUE]
    ELSE validate_each_directive(st, directives.items)

\* The loop over expected_platforms, from the first of the list given on.
RECURSIVE validate_platforms(_, _, _)
validate_platforms(st, compatibility, platforms) ==
    IF platforms = <<>> THEN st
    ELSE validate_platforms(
             IF Head(platforms) \notin DOMAIN compatibility
             THEN AddWarning(st, Finding("Metadata: Missing API compatibility info",
                                         <<>>, "", -1, Head(platforms), <<>>))
             ELSE IF compatibility[Head(platforms)].t # "bool"
             THEN AddError(st, Finding("Metadata: API compatibility should be boolean",
                                       <<>>, "", -1, Head(platforms), <<>>))
             ELSE st,
             compatibility, Tail(platforms))

\* OJConfigValidator._validate_metadata
validate_metadata(st, metadata) ==
    IF "api_compatibility" \in DOMAIN metadata
    THEN validate_platforms(st, metadata.api_compatibility,
                            <<"mobile_app", "web_service", "desktop_app">>)
    ELSE st

\* The lists are left as they are (a mutant).
KeptList(list) == list

\* self.errors = [] and self.warnings = [] at the start of validate
EmptiedList(list) == <<>>

\* What validate hands back - (is_valid, self.errors, self.warnings) - or that
\* it raised, with the two lists as the call left them.
Verdict(st, returned_early) ==
    [raised |-> st.raised,
     is_valid |-> IF returned_early THEN FALSE ELSE Len(st.errors) = 0,
     errors |-> st.errors, warnings |-> st.warnings]

\* validate, after the file was read and parsed
validate_document(st, config) ==
    LET st1 == validate_top_level(st, config)
        st2 == IF "directives" \in DOMAIN config
               THEN validate_directives(st1, config.directives)
               ELSE st1
    IN  IF st2.raised THEN Verdict(st2, FALSE)
        ELSE IF "metadata" \in DOMAIN config
        THEN Verdict(validate_metadata(st2, config.metadata), FALSE)
        ELSE Verdict(st2, FALSE)

\* OJConfigValidator.validate
validate(file, self_errors, self_warnings) ==
    IF file.file = "absent"
    THEN Verdict(AddError(Lists(EmptiedList(self_errors), EmptiedList(self_warnings)),
                          Finding("Configuration file not found", <<>>, "", -1, "", <<>>)),
                 TRUE)
    ELSE IF file.file = "unparsable"
    THEN Verdict(AddError(Lists(EmptiedList(self_errors), EmptiedList(self_warnings)),
                          Finding("Invalid JSON format", <<>>, "", -1, "", <<>>)),
                 TRUE)
    ELSE validate_document(Lists(EmptiedList(self_errors), EmptiedList(self_warnings)),
                           file.document)


-----------------------------------------------------------------------------
(* The registry files of the model *)

DateText == <<"2", "0", "2", "5", "-", "0", "1", "-", "2", "8">>
NameText == <<"N", "a", "m", "e">>

Amendment(url, date) == [url |-> url, date |-> date, description |-> NameText]

OjLinks(main, amendments) == [main |-> main, amendments |-> amendments]

DirectiveRecord(ec_webpage, oj_links) ==
    [name |-> NameText, directive_number |-> <<"2", "0", "1", "4", "/", "3", "5", "/", "E", "U">>,
     decision |-> NameText, ec_webpage |-> ec_webpage, description |-> NameText,
     oj_links |-> oj_links]

GoodLinks == OjLinks(EurLexUrl, <<Amendment(EurLexUrl, DateText)>>)

\* A record of a directive that the validator finds nothing in, and the ways
\* in which the records of the model depart from it.
RecordKinds ==
    {"good", "no amendments key", "foreign ec_webpage", "lookalike ec_webpage",
     "empty ec_webpage", "no name", "ftp main", "main without scheme"}

RecordOf(kind) ==
    CASE kind = "good" -> DirectiveRecord(CommissionUrl, GoodLinks)
      [] kind = "no amendments key" -> DirectiveRecord(CommissionUrl, [main |-> EurLexUrl])
      [] kind = "foreign ec_webpage" -> DirectiveRecord(ForeignUrl, GoodLinks)
      [] kind = "lookalike ec_webpage" -> DirectiveRecord(LookalikeUrl, GoodLinks)
      [] kind = "empty ec_webpage" -> DirectiveRecord(<<>>, GoodLinks)
      [] kind = "no name" ->
            [directive_number |-> <<"2", "0", "1", "4", "/", "3", "5", "/", "E", "U">>, decision |-> NameText,
             ec_webpage |-> CommissionUrl, description |-> NameText,
             oj_links |-> GoodLinks]
      [] kind = "ftp main" ->
            DirectiveRecord(CommissionUrl, OjLinks(FtpUrl, <<Amendment(EurLexUrl, <<"T", "B", "D">>)>>))
      [] kind = "main without scheme" ->
            DirectiveRecord(CommissionUrl, OjLinks(NoSchemeUrl, <<>>))

Item(code, kind) == [code |-> code, data |-> RecordOf(kind)]

DictOf(items) == [kind |-> "dict", items |-> items]

FullCompatibility ==
    [api_compatibility |-> [mobile_app |-> PyBool(TRUE), web_service |-> PyBool(TRUE),
                            desktop_app |-> PyBool(FALSE)]]

Document(version, directives, metadata) ==
    [version |-> version, last_updated |-> DateText, description |-> NameText,
     directives |-> directives, metadata |-> metadata]

GoodDocument(items) == Document(<<"1", ".", "0">>, DictOf(items), FullCompatibility)

Documents ==
    {GoodDocument(<<Item(LVD, kind)>>) : kind \in RecordKinds}
        \cup {GoodDocument(<<Item(LVD, "good"), Item(MD, kind)>>) :
                  kind \in {"good", "no amendments key", "no name"}}
        \cup {GoodDocument(<<Item(MD, "good")>>),
              GoodDocument(<<>>),
              Document(<<"v", "1">>, DictOf(<<Item(LVD, "good")>>), FullCompatibility),
              Document(<<"1", ".", "0">>, [kind |-> "list", items |-> <<Item(LVD, "good")>>],
                       FullCompatibility),
              Document(<<"1", ".", "0">>, DictOf(<<Item(LVD, "good")>>),
                       [api_compatibility |-> [mobile_app |-> PyBool(TRUE),
                                               desktop_app |-> PyStr(<<"n", "o">>)]]),
              [version |-> <<"1", ".", "0">>, last_updated |-> DateText,
               directives |-> DictOf(<<Item(LVD, "good")>>)]}

RegistryFiles == {Absent, Unparsable} \cup {Parsed(document) : document \in Documents}

(* The validator: the runs of validate of one validator over a file that is
   rewritten between the calls *)

InitValidate ==
    /\ config_file \in RegistryFiles
    /\ ValidatorIdle
    /\ CompareIdle /\ ConfigIdle /\ ToolsIdle
    /\ PureIdle /\ CacheIdle /\ FetchIdle /\ CapiIdle /\ ExtractIdle

Validate ==
    /\ \E r \in {validate(config_file, errors, warnings)} :
          /\ errors' = r.errors
          /\ warnings' = r.warnings
          /\ vres' = [call |-> "validate", file |-> config_file, raised |-> r.raised,
                      is_valid |-> r.is_valid, errors |-> r.errors,
                      warnings |-> r.warnings]
    /\ vprev' = vres
    /\ UNCHANGED <<config_file, compareVars, configVars, pureVars, cacheVars, fetchVars,
                   capiVars, extractVars, toolVars>>

\* The file is written, or removed, by whoever maintains the registry.
WriteRegistryFile(file) ==
    /\ config_file # file
    /\ config_file' = file
    /\ UNCHANGED <<validatorVars, compareVars, configVars, pureVars, cacheVars,
                   fetchVars, capiVars, extractVars, toolVars>>

NextValidate ==
    \/ Validate
    \/ \E file \in RegistryFiles : WriteRegistryFile(file)

SpecValidate == InitValidate /\ [][NextValidate]_vars


-----------------------------------------------------------------------------
(* C17 *)

-----------------------------------------------------------------------------
(* C18 *)

EndsWith(s, suffix) ==
    Len(s) >= Len(suffix) /\ SubSeq(s, Len(s) - Len(suffix) + 1, Len(s)) = suffix

\* The host is the domain or a name under it.
InDomain(host, domain) == host = domain \/ EndsWith(host, <<".">> \o domain)

\* A well-formed http(s) URL whose host (the netloc: no URL of the model has
\* user information or a port) lies outside the two official domains.
OutsideOfficialDomains(url) ==
    LET parsed == urlparse(url)
    IN  /\ parsed.scheme \in {<<"h", "t", "t", "p">>, <<"h", "t", "t", "p", "s">>}
        /\ parsed.netloc # <<>>
        /\ ~InDomain(Lower(parsed.netloc), eur_lex_europa_eu)
        /\ ~InDomain(Lower(parsed.netloc), single_market_economy_ec_europa_eu)

\* The document with the k-th directive record replaced.
WithRecord(document, k, data) ==
    [document EXCEPT !.directives.items[k].data = data]

ErrorsOf(document) == validate(Parsed(document), <<>>, <<>>).errors

\* C18: a document that lacks oj_links.amendments for one directive and is
\* valid once the key is put there yields exactly one error, which names the
\* directive and the field, and is_valid false; a document whose ec_webpage
\* for some directive is a well-formed http(s) URL on a host outside
\* eur-lex.europa.eu and single-market-economy.ec.europa.eu, and which is valid
\* with an official URL there, yields a warning for it, no error, and is_valid
\* true.
C18_ValidatorFindings ==
    (/\ vres.call = "validate" /\ ~vres.raised
     /\ vres.file.file = "json"
     /\ "directives" \in DOMAIN vres.file.document
     /\ vres.file.document.directives.kind = "dict") =>
        LET document == vres.file.document
            items == document.directives.items
        IN  \A k \in 1..Len(items) :
               /\ (/\ "oj_links" \in DOMAIN items[k].data
                   /\ "main" \in DOMAIN items[k].data.oj_links
                   /\ "amendments" \notin DOMAIN items[k].data.oj_links
                   /\ ErrorsOf(WithRecord(document, k,
                          [items[k].data EXCEPT
                              !.oj_links = OjLinks(items[k].data.oj_links.main, <<>>)]))
                        = <<>>)
                  => /\ Len(vres.errors) = 1
                     /\ vres.errors[1].directive = items[k].code
                     /\ vres.errors[1].place = "OJ links"
                     /\ vres.errors[1].field = "amendments"
                     /\ ~vres.is_valid
               /\ (/\ "ec_webpage" \in DOMAIN items[k].data
                   /\ OutsideOfficialDomains(items[k].data.ec_webpage)
                   /\ ErrorsOf(WithRecord(document, k,
                          [items[k].data EXCEPT !.ec_webpage = CommissionUrl])) = <<>>)
                  => /\ vres.errors = <<>>
                     /\ vres.is_valid
                     /\ \E w \in 1..Len(vres.warnings) :
                           /\ vres.warnings[w].directive = items[k].code
                           /\ vres.warnings[w].place = "EC webpage"
                           /\ vres.warnings[w].value = items[k].data.ec_webpage


-----------------------------------------------------------------------------
(* config.py: the registry loader and its in-memory mirrors *)

MaxCalls == 3

\* A Python dict: its items in insertion order. d[key] = value replaces the
\* value of a key that is there and appends a new key.
DictHas(d, key) == \E k \in 1..Len(d) : d[k].key = key

DictGet(d, key) == d[CHOOSE k \in 1..Len(d) : d[k].key = key].value

RECURSIVE DictSet(_, _, _)
DictSet(d, key, value) ==
    IF d = <<>> THEN <<[key |-> key, value |-> value]>>
    ELSE IF Head(d).key = key THEN <<[key |-> key, value |-> value]>> \o Tail(d)
    ELSE <<Head(d)>> \o DictSet(Tail(d), key, value)

\* list(d.keys())
RECURSIVE DictKeys(_)
DictKeys(d) == IF d = <<>> THEN <<>> ELSE <<Head(d).key>> \o DictKeys(Tail(d))

\* [amendment[field] for amendment in amendments]; KeyError when one lacks it.
RECURSIVE FieldOfEach(_, _)
FieldOfEach(amendments, field) ==
    IF amendments = <<>> THEN <<>>
    ELSE <<Head(amendments)[field]>> \o FieldOfEach(Tail(amendments), field)

EachHas(amendments, field) ==
    \A k \in 1..Len(amendments) : field \in DOMAIN amendments[k]

\* The globals of the module
Globals(config, urls, eur_lex, info) ==
    [oj_config |-> config, DIRECTIVE_URLS |-> urls, EUR_LEX_URLS |-> eur_lex,
     DIRECTIVE_INFO |-> info]

\* What a call leaves: the globals, the exception it raised ("none" when it
\* returned) and what it returned.
Left(g, raised, returned) == [g |-> g, raised |-> raised, returned |-> returned]

\* The first loop of load_oj_config, lines 30-31.
RECURSIVE BuildDirectiveUrls(_, _)
BuildDirectiveUrls(g, items) ==
    IF items = <<>> THEN Left(g, "none", None)
    ELSE IF "ec_webpage" \notin DOMAIN Head(items).data THEN Left(g, "KeyError", None)
    ELSE BuildDirectiveUrls(
             [g EXCEPT !.DIRECTIVE_URLS =
                  DictSet(@, Head(items).code, Head(items).data.ec_webpage)],
             Tail(items))

\* The keys that lines 35-41 read
EurLexKeysThere(data) ==
    /\ "oj_links" \in DOMAIN data
    /\ "main" \in DOMAIN data.oj_links
    /\ "amendments" \in DOMAIN data.oj_links
    /\ EachHas(data.oj_links.amendments, "url")
    /\ "ec_webpage" \in DOMAIN data
    /\ "description" \in DOMAIN data

\* The second loop, lines 34-41.
RECURSIVE BuildEurLexUrls(_, _)
BuildEurLexUrls(g, items) ==
    IF items = <<>> THEN Left(g, "none", None)
    ELSE IF ~EurLexKeysThere(Head(items).data) THEN Left(g, "KeyError", None)
    ELSE BuildEurLexUrls(
             [g EXCEPT !.EUR_LEX_URLS =
                  DictSet(@, Head(items).code,
                          [main |-> Head(items).data.oj_links.main,
                           amendments |-> FieldOfEach(Head(items).data.oj_links.amendments, "url"),
                           ec_webpage |-> Head(items).data.ec_webpage,
                           description |-> Head(items).data.description])],
             Tail(items))

\* The keys that lines 45-51 read
InfoKeysThere(data) ==
    /\ "oj_links" \in DOMAIN data
    /\ "name" \in DOMAIN data
    /\ "directive_number" \in DOMAIN data
    /\ "decision" \in DOMAIN data
    /\ "amendments" \in DOMAIN data.oj_links
    /\ EachHas(data.oj_links.amendments, "date")

\* The third loop, lines 44-51.
RECURSIVE BuildDirectiveInfo(_, _)
BuildDirectiveInfo(g, items) ==
    IF items = <<>> THEN Left(g, "none", None)
    ELSE IF ~InfoKeysThere(Head(items).data) THEN Left(g, "KeyError", None)
    ELSE BuildDirectiveInfo(
             [g EXCEPT !.DIRECTIVE_INFO =
                  DictSet(@, Head(items).code,
                          [name |-> Head(items).data.name,
                           directive |-> Head(items).data.directive_number,
                           decision |-> Head(items).data.decision,
                           amendments |-> FieldOfEach(Head(items).data.oj_links.amendments, "date")])],
             Tail(items))

\* The three loops one after the other; an exception ends them where it occurs.
BuildMirrors(g, items) ==
    LET first == BuildDirectiveUrls(g, items)
        second == BuildEurLexUrls(first.g, items)
    IN  IF first.raised # "none" THEN first
        ELSE IF second.raised # "none" THEN second
        ELSE BuildDirectiveInfo(second.g, items)

\* The except clauses of load_oj_config: KeyError becomes ValueError, as does
\* JSONDecodeError; anything else passes through.
Reraised(left) ==
    IF left.raised = "KeyError" THEN [left EXCEPT !.raised = "ValueError"]
    ELSE IF left.raised = "none" THEN [left EXCEPT !.returned = left.g.oj_config]
    ELSE left

\* load_oj_config: _oj_config is bound as soon as the file is parsed, before
\* the mirrors are built.
load_oj_config(g, file) ==
    IF g.oj_config # None THEN Left(g, "none", g.oj_config)
    ELSE IF file.file = "absent" THEN Left(g, "FileNotFoundError", None)
    ELSE IF file.file = "unparsable" THEN Left(g, "ValueError", None)
    ELSE IF "directives" \notin DOMAIN file.document
    THEN Left([g EXCEPT !.oj_config = file.document], "ValueError", None)
    ELSE IF file.document.directives.kind # "dict"
    THEN Left([g EXCEPT !.oj_config = file.document], "AttributeError", None)
    ELSE Reraised(BuildMirrors([g EXCEPT !.oj_config = file.document],
                               file.document.directives.items))

\* reload_oj_config
reload_oj_config(g, file) == load_oj_config([g EXCEPT !.oj_config = None], file)

\* get_available_directives
get_available_directives(g, file) ==
    LET loaded == load_oj_config(g, file)
    IN  IF loaded.raised # "none" THEN loaded
        ELSE [loaded EXCEPT !.returned = DictKeys(loaded.g.EUR_LEX_URLS)]

\* add_directive_urls: no load; DIRECTIVE_INFO is not touched.
add_directive_urls(g, directive_code, main_url, amendments, ec_webpage) ==
    Left([g EXCEPT
             !.DIRECTIVE_URLS = IF ec_webpage # <<>>
                                THEN DictSet(@, directive_code, ec_webpage) ELSE @,
             !.EUR_LEX_URLS = DictSet(@, directive_code,
                                  [main |-> main_url, amendments |-> amendments,
                                   ec_webpage |-> ec_webpage,
                                   description |-> directive_code \o
                                       <<" ", "s", "t", "a", "n", "d", "a", "r", "d", "s">>])],
         "none", None)

\* The registry files of the loader's runs
ConfigFiles ==
    {Absent, Unparsable}
        \cup {Parsed(GoodDocument(<<Item(LVD, "good")>>)),
              Parsed(GoodDocument(<<Item(MD, "good")>>)),
              Parsed(GoodDocument(<<Item(LVD, "good"), Item(MD, "good")>>)),
              Parsed(GoodDocument(<<Item(LVD, "good"), Item(MD, "no name")>>)),
              Parsed(GoodDocument(<<Item(LVD, "good"), Item(MD, "no amendments key")>>))}

NoGlobals == Globals(None, <<>>, <<>>, <<>>)

TheGlobals == Globals(oj_config, DIRECTIVE_URLS, EUR_LEX_URLS, DIRECTIVE_INFO)

\* The files with which the import of config.py, which loads the registry at
\* line 73, goes through: the process starts with one of them.
ImportableFiles == {file \in ConfigFiles : load_oj_config(NoGlobals, file).raised = "none"}

(* The loader: the calls into config.py of one process, over a file that is
   rewritten between the calls *)

InitConfig ==
    /\ config_file \in ImportableFiles
    /\ \E left \in {load_oj_config(NoGlobals, config_file)} :
          /\ oj_config = left.g.oj_config
          /\ DIRECTIVE_URLS = left.g.DIRECTIVE_URLS
          /\ EUR_LEX_URLS = left.g.EUR_LEX_URLS
          /\ DIRECTIVE_INFO = left.g.DIRECTIVE_INFO
    /\ cfgres = [call |-> "import", n |-> 0, file |-> config_file, raised |-> "none",
                 returned |-> None, before |-> NoGlobals,
                 last_raised |-> "none", last_file |-> config_file]
    /\ CompareIdle /\ ValidatorIdle /\ ToolsIdle
    /\ PureIdle /\ CacheIdle /\ FetchIdle /\ CapiIdle /\ ExtractIdle

\* A call has run and left the globals so.
Called(call, left) ==
    /\ cfgres.n < MaxCalls
    /\ oj_config' = left.g.oj_config
    /\ DIRECTIVE_URLS' = left.g.DIRECTIVE_URLS
    /\ EUR_LEX_URLS' = left.g.EUR_LEX_URLS
    /\ DIRECTIVE_INFO' = left.g.DIRECTIVE_INFO
    /\ cfgres' = [call |-> call, n |-> cfgres.n + 1, file |-> config_file,
                  raised |-> left.raised, returned |-> left.returned,
                  before |-> TheGlobals,
                  last_raised |-> cfgres.raised, last_file |-> cfgres.file]
    /\ UNCHANGED <<config_file, compareVars, validatorVars, pureVars, cacheVars,
                   fetchVars, capiVars, extractVars, toolVars>>

ReloadOjConfig == Called("reload_oj_config", reload_oj_config(TheGlobals, config_file))

GetAvailableDirectives ==
    Called("get_available_directives", get_available_directives(TheGlobals, config_file))

AddDirectiveUrls(directive_code, ec_webpage) ==
    Called("add_directive_urls",
           add_directive_urls(TheGlobals, directive_code, EurLexUrl, <<>>, ec_webpage))

\* The file is written, or removed, by whoever maintains the registry.
RewriteConfigFile(file) ==
    /\ config_file # file
    /\ config_file' = file
    /\ UNCHANGED <<configVars, compareVars, validatorVars, pureVars, cacheVars,
                   fetchVars, capiVars, extractVars, toolVars>>

NextConfig ==
    \/ ReloadOjConfig
    \/ GetAvailableDirectives
    \/ \E ec_webpage \in {<<>>, CommissionUrl} : AddDirectiveUrls(RE, ec_webpage)
    \/ \E file \in ConfigFiles : RewriteConfigFile(file)

SpecConfig == InitConfig /\ [][NextConfig]_vars


\* The items of a dict, whatever their order
ItemsOf(d) == {d[k] : k \in 1..Len(d)}

\* The mirrors a process that starts on this file holds
FreshMirrors(file) == load_oj_config(NoGlobals, file).g

\* C19: after reload_oj_config() returns, each of DIRECTIVE_URLS, EUR_LEX_URLS
\* and DIRECTIVE_INFO holds exactly the directive codes of the JSON file read by
\* that call, with the file's values: a directive removed from the file, or
\* added in memory only, is no longer listed by get_available_directives().
C19_ReloadDiscardsMirrors ==
    (cfgres.call = "reload_oj_config" /\ cfgres.raised = "none") =>
        /\ ItemsOf(DIRECTIVE_URLS) = ItemsOf(FreshMirrors(cfgres.file).DIRECTIVE_URLS)
        /\ ItemsOf(EUR_LEX_URLS) = ItemsOf(FreshMirrors(cfgres.file).EUR_LEX_URLS)
        /\ ItemsOf(DIRECTIVE_INFO) = ItemsOf(FreshMirrors(cfgres.file).DIRECTIVE_INFO)
        /\ ItemsOf(DictKeys(EUR_LEX_URLS)) =
               {cfgres.file.document.directives.items[k].code :
                    k \in 1..Len(cfgres.file.document.directives.items)}

\* A file the loader has to refuse: absent, not JSON, or with a directive
\* record that lacks a key the loader reads
RefusedFile(file) ==
    \/ file.file # "json"
    \/ \E k \in 1..Len(file.document.directives.items) :
          LET data == file.document.directives.items[k].data
          IN  ~("ec_webpage" \in DOMAIN data /\ EurLexKeysThere(data) /\ InfoKeysThere(data))

\* The call went to the file: a reload always does, an ensure-loaded call
\* does when nothing was loaded.
ReadTheFile ==
    \/ cfgres.call = "reload_oj_config"
    \/ cfgres.call = "get_available_directives" /\ cfgres.before.oj_config = None

\* C20: a load or ensure-loaded call that reads an absent file, a file that is
\* not JSON or a file with a directive record lacking a required key raises;
\* so does every later ensure-loaded call while the file is unchanged; a call
\* that raised leaves the registry not loaded and the mirrors as they were.
C20_LoadErrors ==
    /\ (ReadTheFile /\ RefusedFile(cfgres.file)) =>
           cfgres.raised \in {"FileNotFoundError", "ValueError"}
    /\ (/\ cfgres.call = "get_available_directives"
        /\ cfgres.last_raised # "none"
        /\ cfgres.last_file = cfgres.file) => cfgres.raised # "none"
    /\ cfgres.raised # "none" =>
           /\ oj_config = None
           /\ DIRECTIVE_URLS = cfgres.before.DIRECTIVE_URLS
           /\ EUR_LEX_URLS = cfgres.before.EUR_LEX_URLS
           /\ DIRECTIVE_INFO = cfgres.before.DIRECTIVE_INFO


-----------------------------------------------------------------------------
(* config_manager.py: ConfigurationManager, which edits the registry file *)

\* datetime.now().strftime('%Y-%m-%d') on the day of the run
Today == <<"2", "0", "2", "6", "-", "1", "1", "-", "0", "6">>

\* " harmonized standards"
HarmonizedStandards == <<" ", "h", "a", "r", "m", "o", "n", "i", "z", "e", "d", " ", "s", "t", "a", "n", "d", "a", "r", "d", "s">>

\* f"Amendment to {directive_code} harmonized standards"
AmendmentDescription(directive_code) == <<"A", "m", "e", "n", "d", "m", "e", "n", "t", " ", "t", "o", " ">> \o directive_code \o HarmonizedStandards

\* f'Commission Implementing Decision for {directive_code}'
DefaultDecision(directive_code) == <<"C", "o", "m", "m", "i", "s", "s", "i", "o", "n", " ", "I", "m", "p", "l", "e", "m", "e", "n", "t", "i", "n", "g", " ", "D", "e", "c", "i", "s", "i", "o", "n", " ", "f", "o", "r", " ">> \o directive_code

TBD == <<"T", "B", "D">>

\* What a call of the manager leaves: the globals of config.py, the registry
\* file and the flag it returned.
Written(g, file, returned) == [g |-> g, file |-> file, returned |-> returned]

\* directive_code in config['directives']
HasDirective(config, directive_code) ==
    \E k \in 1..Len(config.directives.items) :
        config.directives.items[k].code = directive_code

\* config['directives'][directive_code]
DirectiveData(config, directive_code) ==
    config.directives.items[CHOOSE k \in 1..Len(config.directives.items) :
                                config.directives.items[k].code = directive_code].data

\* The file is written and the registry is left as it was loaded before.
SaveWithoutReload(mutated, file, can_write) ==
    IF ~can_write THEN Written(mutated, file, FALSE)
    ELSE Written(mutated, Parsed(mutated.oj_config), TRUE)

\* with open(OJ_CONFIG_FILE, 'w') ...: json.dump(config, f); reload_oj_config().
\* config is the object that get_oj_config() returned, the cached document
\* itself, so the globals already hold what was assigned into it. Opening the
\* file raises when it cannot be written, and the except clause returns False.
SaveAndReload(mutated, file, can_write) ==
    IF ~can_write THEN Written(mutated, file, FALSE)
    ELSE LET reloaded == reload_oj_config(mutated, Parsed(mutated.oj_config))
         IN  Written(reloaded.g, Parsed(mutated.oj_config), reloaded.raised = "none")

\* add_new_directive_to_json. An omitted (None) amendments or description is
\* the empty sequence: the code reads both with "or", which takes None and
\* the empty value alike.
add_new_directive_to_json(g, file, can_write, directive_code, name, directive_number, main_url, ec_webpage, decision, amendments, description) ==
    LET loaded == load_oj_config(g, file)
        new_directive ==
            [name |-> name, directive_number |-> directive_number,
             decision |-> decision, ec_webpage |-> ec_webpage,
             description |-> IF description # <<>> THEN description
                             ELSE name \o HarmonizedStandards,
             oj_links |-> [main |-> main_url, amendments |-> amendments]]
        mutated ==
            [loaded.g EXCEPT
                 !.oj_config.directives.items =
                     Append(@, [code |-> directive_code, data |-> new_directive]),
                 !.oj_config.last_updated = Today]
    IN  IF loaded.raised # "none" THEN Written(loaded.g, file, FALSE)
        ELSE IF "directives" \notin DOMAIN loaded.g.oj_config
        THEN Written(loaded.g, file, FALSE)
        ELSE IF HasDirective(loaded.g.oj_config, directive_code)
        THEN Written(loaded.g, file, FALSE)
        ELSE SaveAndReload(mutated, file, can_write)

\* The loop of add_new_directive, lines 76-82
RECURSIVE NewAmendmentsFrom(_, _, _, _)
NewAmendmentsFrom(i, directive_code, amendments, amendment_dates) ==
    IF i > Len(amendments) THEN <<>>
    ELSE <<[url |-> amendments[i],
            date |-> IF i <= Len(amendment_dates) THEN amendment_dates[i] ELSE TBD,
            description |-> AmendmentDescription(directive_code)]>>
         \o NewAmendmentsFrom(i + 1, directive_code, amendments, amendment_dates)

\* add_new_directive (legacy): the lists are converted only when both are
\* given and not empty.
add_new_directive(g, file, can_write, directive_code, name, directive_number, main_url, ec_webpage, amendments, decision, amendment_dates) ==
    add_new_directive_to_json(
        g, file, can_write, directive_code, name, directive_number, main_url, ec_webpage,
        IF decision # <<>> THEN decision ELSE DefaultDecision(directive_code),
        IF amendments # <<>> /\ amendment_dates # <<>>
        THEN NewAmendmentsFrom(1, directive_code, amendments, amendment_dates)
        ELSE <<>>,
        name \o HarmonizedStandards)

\* The index of the directive in the document
DirectiveIndex(config, directive_code) ==
    CHOOSE k \in 1..Len(config.directives.items) :
        config.directives.items[k].code = directive_code

\* No amendment is ever taken for one that is there.
HasNoAmendmentUrl(existing_amendments, amendment_url) == FALSE

\* The loop of lines 114-117: an amendment with exactly this URL is there.
HasAmendmentUrl(existing_amendments, amendment_url) ==
    \E k \in 1..Len(existing_amendments) : existing_amendments[k].url = amendment_url

\* add_amendment_to_json
add_amendment_to_json(g, file, can_write, directive_code, amendment_url, amendment_date, description) ==
    LET loaded == load_oj_config(g, file)
        config == loaded.g.oj_config
        data == DirectiveData(config, directive_code)
        new_amendment ==
            [url |-> amendment_url, date |-> amendment_date,
             description |-> IF description # <<>> THEN description
                             ELSE AmendmentDescription(directive_code)]
        mutated ==
            [loaded.g EXCEPT
                 !.oj_config.directives.items[DirectiveIndex(config, directive_code)]
                     .data.oj_links.amendments = Append(@, new_amendment),
                 !.oj_config.last_updated = Today]
    IN  IF loaded.raised # "none" THEN Written(loaded.g, file, FALSE)
        ELSE IF "directives" \notin DOMAIN config THEN Written(loaded.g, file, FALSE)
        ELSE IF ~HasDirective(config, directive_code) THEN Written(loaded.g, file, FALSE)
        ELSE IF "oj_links" \notin DOMAIN data THEN Written(loaded.g, file, FALSE)
        ELSE IF "amendments" \notin DOMAIN data.oj_links THEN Written(loaded.g, file, FALSE)
        ELSE IF HasAmendmentUrl(data.oj_links.amendments, amendment_url)
        THEN Written(loaded.g, file, FALSE)
        ELSE SaveAndReload(mutated, file, can_write)

\* add_amendment (legacy)
add_amendment(g, file, can_write, directive_code, amendment_url, amendment_date) ==
    add_amendment_to_json(g, file, can_write, directive_code, amendment_url,
                          IF amendment_date # <<>> THEN amendment_date ELSE TBD,
                          AmendmentDescription(directive_code))

\* OJChecker.fetch_standards, lines 38-43: the directive is unknown when it is
\* not a key of self.directive_urls, which is the dict DIRECTIVE_URLS itself.
UnknownDirective(self_directive_urls, directive) == ~DictHas(self_directive_urls, directive)


(* The manager: calls of one process into config_manager.py and config.py,
   over a registry file that is not always writable *)

RadioName == <<"R", "a", "d", "i", "o">>
RadioNumber == <<"2", "0", "1", "4", "/", "5", "3", "/", "E", "U">>
SecondAmendmentUrl == <<"h", "t", "t", "p", "s", ":", "/", "/", "e", "u", "r", "-", "l", "e", "x", ".", "e", "u", "r", "o", "p", "a", ".", "e", "u", "/", "e">>
ThirdAmendmentUrl == <<"h", "t", "t", "p", "s", ":", "/", "/", "e", "u", "r", "-", "l", "e", "x", ".", "e", "u", "r", "o", "p", "a", ".", "e", "u", "/", "f">>

\* The process starts with the import of config.py on a file that loads.
InitManager == InitConfig

\* A call of the manager has returned.
ManagerCalled(call, args, written) ==
    /\ cfgres.n < MaxCalls
    /\ oj_config' = written.g.oj_config
    /\ DIRECTIVE_URLS' = written.g.DIRECTIVE_URLS
    /\ EUR_LEX_URLS' = written.g.EUR_LEX_URLS
    /\ DIRECTIVE_INFO' = written.g.DIRECTIVE_INFO
    /\ config_file' = written.file
    /\ cfgres' = [call |-> call, n |-> cfgres.n + 1, file |-> config_file,
                  raised |-> "none", returned |-> written.returned,
                  before |-> TheGlobals,
                  last_raised |-> cfgres.raised, last_file |-> cfgres.file,
                  args |-> args, writable |-> writable]
    /\ UNCHANGED <<toolVars, compareVars, validatorVars, pureVars, cacheVars,
                   fetchVars, capiVars, extractVars>>

AddNewDirectiveToJson(directive_code, amendments) ==
    ManagerCalled("add_new_directive_to_json",
                  [directive_code |-> directive_code, amendments |-> amendments],
                  add_new_directive_to_json(TheGlobals, config_file, writable,
                      directive_code, RadioName, RadioNumber, EurLexUrl, CommissionUrl,
                      NameText, amendments, <<>>))

AddNewDirective(directive_code, amendments, amendment_dates) ==
    ManagerCalled("add_new_directive",
                  [directive_code |-> directive_code, amendments |-> amendments,
                   amendment_dates |-> amendment_dates],
                  add_new_directive(TheGlobals, config_file, writable,
                      directive_code, RadioName, RadioNumber, EurLexUrl, CommissionUrl,
                      amendments, <<>>, amendment_dates))

AddAmendmentToJson(directive_code, amendment_url) ==
    ManagerCalled("add_amendment_to_json",
                  [directive_code |-> directive_code, amendment_url |-> amendment_url,
                   amendment_date |-> DateText],
                  add_amendment_to_json(TheGlobals, config_file, writable,
                      directive_code, amendment_url, DateText, <<>>))

AddAmendment(directive_code, amendment_url, amendment_date) ==
    ManagerCalled("add_amendment",
                  [directive_code |-> directive_code, amendment_url |-> amendment_url,
                   amendment_date |-> amendment_date],
                  add_amendment(TheGlobals, config_file, writable,
                      directive_code, amendment_url, amendment_date))

\* OJChecker().fetch_standards(directive) up to its first test; returned is
\* whether the directive got past it.
FetchKnownDirective(directive) ==
    ManagerCalled("fetch_standards", [directive |-> directive],
                  Written(TheGlobals, config_file,
                          ~UnknownDirective(DIRECTIVE_URLS, directive)))

\* The file or its directory becomes read-only, or writable again.
SetWritable(can_write) ==
    /\ writable # can_write
    /\ writable' = can_write
    /\ UNCHANGED <<search_params, sres, rt, config_file, configVars, compareVars,
                   validatorVars, pureVars, cacheVars, fetchVars, capiVars, extractVars>>

NextManager ==
    \/ \E directive_code \in {LVD, RE},
          amendments \in {<<>>, <<Amendment(SecondAmendmentUrl, DateText)>>} :
          AddNewDirectiveToJson(directive_code, amendments)
    \/ \E amendments \in {<<>>, <<SecondAmendmentUrl>>,
                          <<SecondAmendmentUrl, ThirdAmendmentUrl>>},
          amendment_dates \in {<<>>, <<DateText>>} :
          AddNewDirective(RE, amendments, amendment_dates)
    \/ \E directive_code \in {LVD, EMC},
          amendment_url \in {EurLexUrl, SecondAmendmentUrl} :
          AddAmendmentToJson(directive_code, amendment_url)
    \/ \E amendment_url \in {SecondAmendmentUrl, ThirdAmendmentUrl},
          amendment_date \in {<<>>, DateText} :
          AddAmendment(LVD, amendment_url, amendment_date)
    \/ \E directive \in {LVD, RE} : FetchKnownDirective(directive)
    \/ \E can_write \in BOOLEAN : SetWritable(can_write)
    \/ \E ec_webpage \in {<<>>, CommissionUrl} : AddDirectiveUrls(RE, ec_webpage)
    \/ ReloadOjConfig
    \/ GetAvailableDirectives

SpecManager == InitManager /\ [][NextManager]_vars


\* The directive codes of a registry document
CodesOf(document) ==
    {document.directives.items[k].code : k \in 1..Len(document.directives.items)}

\* The record of a code in a registry document
RecordIn(document, directive_code) ==
    (CHOOSE item \in ItemsOf(document.directives.items) : item.code = directive_code).data

\* The call found the registry loaded from the file as the file is.
InSync == cfgres.file = Parsed(cfgres.before.oj_config)

\* Nothing is left changed by the call: neither the file nor the registry.
NothingChanged == config_file = cfgres.file /\ TheGlobals = cfgres.before

\* Every directive record that was in the document is there unchanged.
RecordsKept(before_document, document) ==
    \A k \in 1..Len(before_document.directives.items) :
        /\ k <= Len(document.directives.items)
        /\ document.directives.items[k] = before_document.directives.items[k]

\* C21: add_new_directive_to_json of a code that is in the registry document
\* returns False and leaves the file and the registry unchanged; of a new code,
\* with the file writable, it returns True, and then the file and the reloaded
\* registry hold the code with the given name, main URL, EC webpage and
\* amendments, and every record that was there is unchanged.
C21_AddDirective ==
    (cfgres.call = "add_new_directive_to_json" /\ InSync /\ cfgres.writable) =>
        IF cfgres.args.directive_code \in CodesOf(cfgres.before.oj_config)
        THEN cfgres.returned = FALSE /\ NothingChanged
        ELSE /\ cfgres.returned = TRUE
             /\ config_file = Parsed(oj_config)
             /\ cfgres.args.directive_code \in CodesOf(oj_config)
             /\ LET added == RecordIn(oj_config, cfgres.args.directive_code)
                IN  /\ added.name = RadioName
                    /\ added.oj_links.main = EurLexUrl
                    /\ added.ec_webpage = CommissionUrl
                    /\ added.oj_links.amendments = cfgres.args.amendments
             /\ DictHas(DIRECTIVE_URLS, cfgres.args.directive_code)
             /\ DictHas(EUR_LEX_URLS, cfgres.args.directive_code)
             /\ DictHas(DIRECTIVE_INFO, cfgres.args.directive_code)
             /\ DictGet(DIRECTIVE_URLS, cfgres.args.directive_code) = CommissionUrl
             /\ DictGet(EUR_LEX_URLS, cfgres.args.directive_code).main = EurLexUrl
             /\ DictGet(EUR_LEX_URLS, cfgres.args.directive_code).amendments =
                    FieldOfEach(cfgres.args.amendments, "url")
             /\ DictGet(DIRECTIVE_INFO, cfgres.args.directive_code).name = RadioName
             /\ RecordsKept(cfgres.before.oj_config, oj_config)
             /\ \A code \in CodesOf(cfgres.before.oj_config) :
                    /\ DictHas(EUR_LEX_URLS, code)
                    /\ DictGet(EUR_LEX_URLS, code) =
                           DictGet(FreshMirrors(config_file).EUR_LEX_URLS, code)
                    /\ DictGet(DIRECTIVE_INFO, code) =
                           DictGet(FreshMirrors(config_file).DIRECTIVE_INFO, code)

\* A new directive with an amendment has been added next to the directives
\* that were there.
C21_Witness ==
    /\ cfgres.call = "add_new_directive_to_json" /\ InSync /\ cfgres.writable
    /\ cfgres.args.directive_code = RE
    /\ cfgres.args.amendments # <<>>
    /\ cfgres.returned = TRUE
    /\ CodesOf(oj_config) = {LVD, MD, RE}

\* C22: when the registry file cannot be written, add_new_directive_to_json
\* and add_amendment_to_json return False and leave the cached document, the
\* mirrors and the file as they were; so an add-directive call for a code that
\* the file does not hold is not refused as a duplicate once the file is
\* writable.
C22_FailedWriteChangesNothing ==
    /\ (/\ cfgres.call \in {"add_new_directive_to_json", "add_amendment_to_json"}
        /\ ~cfgres.writable) =>
           cfgres.returned = FALSE /\ NothingChanged
    /\ (/\ cfgres.call = "add_new_directive_to_json"
        /\ cfgres.writable
        /\ cfgres.file.file = "json"
        /\ cfgres.args.directive_code \notin CodesOf(cfgres.file.document)) =>
           cfgres.returned = TRUE

\* The amendments of a code in a registry document
AmendmentsIn(document, directive_code) ==
    RecordIn(document, directive_code).oj_links.amendments

\* No directive of the document holds two amendments with the same URL.
NoDuplicateUrls(document) ==
    \A code \in CodesOf(document) :
        LET amendments == AmendmentsIn(document, code)
        IN  \A i, j \in 1..Len(amendments) :
                amendments[i].url = amendments[j].url => i = j

\* The amendments that were there are there, in the same places.
IsPrefix(before_list, list) ==
    /\ Len(before_list) <= Len(list)
    /\ \A k \in 1..Len(before_list) : list[k] = before_list[k]

\* C23: add_amendment_to_json and add_amendment return False and change
\* nothing when the directive is unknown or holds an amendment with exactly
\* that URL; otherwise, the file being writable, they append {url, date,
\* description} after the amendments that are there. No directive comes to hold
\* two amendments with one URL, and no call changes the order of amendments.
C23_AddAmendment ==
    /\ NoDuplicateUrls(oj_config)
    /\ config_file.file = "json" /\ NoDuplicateUrls(config_file.document)
    /\ cfgres.call \in {"add_amendment_to_json", "add_amendment"} =>
           LET code == cfgres.args.directive_code
               url == cfgres.args.amendment_url
               before == cfgres.before.oj_config
           IN  /\ \A c \in CodesOf(before) :
                      /\ c \in CodesOf(oj_config)
                      /\ IsPrefix(AmendmentsIn(before, c), AmendmentsIn(oj_config, c))
               /\ InSync =>
                      IF \/ code \notin CodesOf(before)
                         \/ \E k \in 1..Len(AmendmentsIn(before, code)) :
                                AmendmentsIn(before, code)[k].url = url
                      THEN cfgres.returned = FALSE /\ NothingChanged
                      ELSE cfgres.writable =>
                               /\ cfgres.returned = TRUE
                               /\ config_file = Parsed(oj_config)
                               /\ AmendmentsIn(oj_config, code) =
                                      Append(AmendmentsIn(before, code),
                                             [url |-> url,
                                              date |-> IF cfgres.args.amendment_date = <<>>
                                                       THEN TBD
                                                       ELSE cfgres.args.amendment_date,
                                              description |-> AmendmentDescription(code)])
                               /\ DictGet(EUR_LEX_URLS, code).amendments =
                                      FieldOfEach(AmendmentsIn(oj_config, code), "url")

\* A third amendment has been appended to a directive that held two.
C23_Witness ==
    /\ cfgres.call \in {"add_amendment_to_json", "add_amendment"}
    /\ InSync /\ cfgres.returned = TRUE
    /\ Len(AmendmentsIn(oj_config, LVD)) = 3

\* C26: every amendment URL passed to the legacy add_new_directive is, in the
\* given order, a {url, date, description} amendment of the created record; one
\* without a date of its own (shorter or omitted date list) has the date "TBD".
C26_LegacyAmendmentsKept ==
    (cfgres.call = "add_new_directive" /\ cfgres.returned = TRUE) =>
        LET created == AmendmentsIn(config_file.document, cfgres.args.directive_code)
        IN  /\ Len(created) = Len(cfgres.args.amendments)
            /\ \A i \in 1..Len(cfgres.args.amendments) :
                   /\ i <= Len(created)
                   /\ DOMAIN created[i] = {"url", "date", "description"}
                   /\ created[i].url = cfgres.args.amendments[i]
                   /\ created[i].date =
                          IF i <= Len(cfgres.args.amendment_dates)
                          THEN cfgres.args.amendment_dates[i] ELSE TBD

\* C29: the codes that get_available_directives() returns are the codes that
\* fetch_standards does not reject as unknown, after any calls of reload,
\* add_directive_urls (with or without an EC webpage) and the manager.
C29_RegistryAndFetcherAgree ==
    LET listed == get_available_directives(TheGlobals, config_file)
    IN  listed.raised = "none" =>
            \A directive \in {LVD, MD, RE, EMC} :
                directive \in ItemsOf(listed.returned) <=>
                    ~UnknownDirective(DIRECTIVE_URLS, directive)

-----------------------------------------------------------------------------
(* etsi_searcher.py: ETSIPortalSearcher *)

MaxSearches == 3

\* ETSI_PORTAL['base_url']
base_url == <<"h", "t", "t", "p", "s", ":", "/", "/", "p", "o", "r", "t", "a", "l", ".", "e", "t", "s", "i", ".", "o", "r", "g", "/", "w", "e", "b", "a", "p", "p", "/", "W", "o", "r", "k", "P", "r", "o", "g", "r", "a", "m", "/", "F", "r", "a", "m", "e", "_", "W", "o", "r", "k", "I", "t", "e", "m", "L", "i", "s", "t", ".", "a", "s", "p">>

\* ETSI_PORTAL['search_params'], in the order of the dict
DefaultSearchParams ==
    <<[key |-> <<"S", "e", "a", "r", "c", "h", "P", "a", "g", "e">>, value |-> <<"T", "R", "U", "E">>],
      [key |-> <<"q", "S", "O", "R", "T">>, value |-> <<"H", "I", "G", "H", "V", "E", "R", "S", "I", "O", "N">>],
      [key |-> <<"q", "I", "N", "C", "L", "U", "D", "E", "_", "S", "U", "B", "_", "T", "B">>, value |-> <<"T", "r", "u", "e">>],
      [key |-> <<"q", "E", "T", "S", "I", "_", "A", "L", "L">>, value |-> <<"T", "R", "U", "E">>],
      [key |-> <<"q", "R", "E", "P", "O", "R", "T", "_", "T", "Y", "P", "E">>, value |-> <<"S", "U", "M", "M", "A", "R", "Y">>],
      [key |-> <<"o", "p", "t", "D", "i", "s", "p", "l", "a", "y">>, value |-> <<"1", "0">>],
      [key |-> <<"i", "n", "c", "l", "u", "d", "e", "N", "o", "n", "A", "c", "t", "i", "v", "e", "T", "B">>, value |-> <<"F", "A", "L", "S", "E">>],
      [key |-> <<"b", "u", "t", "S", "i", "m", "p", "l", "e">>, value |-> <<"+", "+", "S", "e", "a", "r", "c", "h", "+", "+">>]>>

qETSI_NUMBER == <<"q", "E", "T", "S", "I", "_", "N", "U", "M", "B", "E", "R">>

\* str.replace(old, new) for a non-empty old: the non-overlapping occurrences,
\* left to right.
RECURSIVE StrReplace(_, _, _)
StrReplace(s, old, new) ==
    IF Len(s) < Len(old) THEN s
    ELSE IF SubSeq(s, 1, Len(old)) = old
         THEN new \o StrReplace(SubSeq(s, Len(old) + 1, Len(s)), old, new)
         ELSE <<Head(s)>> \o StrReplace(Tail(s), old, new)

\* The characters that quote_plus leaves as they are
IsUnreserved(c) == IsDigit(c) \/ IsLower(c) \/ IsUpperCase(c) \/ c \in {"_", ".", "-", "~"}

\* %XX of the other characters of the model
PercentEncoded(c) ==
    CASE c = "#" -> <<"%", "2", "3">>
      [] c = "(" -> <<"%", "2", "8">>
      [] c = ")" -> <<"%", "2", "9">>
      [] c = "+" -> <<"%", "2", "B">>
      [] c = "/" -> <<"%", "2", "F">>
      [] c = ":" -> <<"%", "3", "A">>
      [] c = "[" -> <<"%", "5", "B">>
      [] c = "\\" -> <<"%", "5", "C">>
      [] c = "]" -> <<"%", "5", "D">>

\* urllib.parse.quote_plus
RECURSIVE quote_plus(_)
quote_plus(s) ==
    IF s = <<>> THEN <<>>
    ELSE (IF Head(s) = " " THEN <<"+">>
          ELSE IF IsUnreserved(Head(s)) THEN <<Head(s)>>
          ELSE PercentEncoded(Head(s))) \o quote_plus(Tail(s))

\* urllib.parse.urlencode of a dict of str
RECURSIVE urlencode(_)
urlencode(params) ==
    IF params = <<>> THEN <<>>
    ELSE quote_plus(Head(params).key) \o <<"=">> \o quote_plus(Head(params).value)
         \o (IF Tail(params) = <<>> THEN <<>> ELSE <<"&">> \o urlencode(Tail(params)))

\* The assignment goes to the shared dict itself.
AssignInPlace(shared, key, value) ==
    [params |-> DictSet(shared, key, value), shared |-> DictSet(shared, key, value)]

\* params = self.search_params.copy(); params[key] = value: the assignment
\* goes to the copy, the shared dict is left as it is.
AssignToCopy(shared, key, value) ==
    [params |-> DictSet(shared, key, value), shared |-> shared]

\* _generate_search_url: the URL, and the shared parameters as it leaves them
generate_search_url(self_base_url, self_search_params, standard_number) ==
    LET without_en == StrReplace(standard_number, <<"E", "N", " ">>, <<>>)
        without_etsi == StrReplace(without_en, <<"E", "T", "S", "I", " ">>, <<>>)
        without_etsi_en ==
            StrReplace(without_etsi, <<"E", "T", "S", "I", " ", "E", "N", " ">>, <<>>)
        etsi_number == Strip(without_etsi_en)
        assigned == AssignToCopy(self_search_params, qETSI_NUMBER, etsi_number)
    IN  [search_url |-> self_base_url \o <<"?">> \o urlencode(assigned.params),
         search_params |-> assigned.shared]

\* utils.validate_url
utils_validate_url(url) == urlparse(url).scheme # <<>> /\ urlparse(url).netloc # <<>>

\* SearchResult, without the timestamp
SearchResult(standard_number, search_url, success) ==
    [standard_number |-> standard_number, search_url |-> search_url, success |-> success]

\* search_standard: the result, and the shared parameters as it leaves them
search_standard(self_base_url, self_search_params, standard_number) ==
    LET generated ==
            generate_search_url(self_base_url, self_search_params,
                                utils_normalize_standard_number(standard_number))
    IN  [result |-> IF utils_validate_url(generated.search_url)
                    THEN SearchResult(standard_number, generated.search_url, TRUE)
                    ELSE SearchResult(standard_number, <<>>, FALSE),
         search_params |-> generated.search_params]

(* The searcher: searches of one process, one after the other *)

\* Work-item numbers as the registry's standards have them
BareNumbers == {<<"3", "0", "1", " ", "4", "8", "9", "-", "1", "7">>, <<"3", "0", "0", " ", "3", "2", "8">>, <<"6", "1", "0", "0", "0", "-", "4", "-", "2">>}

\* The forms in which a number is given
NumberPrefixes == {<<>>, <<"E", "N", " ">>, <<"E", "T", "S", "I", " ", "E", "N", " ">>}

\* What is searched for: the numbers in their forms, and a number of another family
SearchedNumbers ==
    {prefix \o bare : prefix \in NumberPrefixes, bare \in BareNumbers}
        \cup {<<"I", "E", "C", " ", "6", "1", "0", "0", "0", "-", "4", "-", "2">>}

InitSearch ==
    /\ search_params = DefaultSearchParams
    /\ sres = [call |-> "none", n |-> 0]
    /\ writable = TRUE /\ rt = NoCall
    /\ CompareIdle /\ config_file = None /\ ValidatorIdle /\ ConfigIdle
    /\ PureIdle /\ CacheIdle /\ FetchIdle /\ CapiIdle /\ ExtractIdle

SearchStandard(standard_number) ==
    /\ sres.n < MaxSearches
    /\ \E searched \in {search_standard(base_url, search_params, standard_number)} :
          /\ search_params' = searched.search_params
          /\ sres' = [call |-> "search_standard", n |-> sres.n + 1,
                      standard_number |-> standard_number,
                      result |-> searched.result, before |-> search_params,
                      last |-> sres]
    /\ UNCHANGED <<writable, rt, compareVars, config_file, validatorVars, configVars,
                   pureVars, cacheVars, fetchVars, capiVars, extractVars>>

NextSearch == \E standard_number \in SearchedNumbers : SearchStandard(standard_number)

SpecSearch == InitSearch /\ [][NextSearch]_vars

\* The character of %XX
PercentDecoded(hex) ==
    CASE hex = <<"2", "3">> -> "#"
      [] hex = <<"2", "8">> -> "("
      [] hex = <<"2", "9">> -> ")"
      [] hex = <<"2", "B">> -> "+"
      [] hex = <<"2", "F">> -> "/"
      [] hex = <<"3", "A">> -> ":"
      [] hex = <<"5", "B">> -> "["
      [] hex = <<"5", "C">> -> "\\"
      [] hex = <<"5", "D">> -> "]"

\* What the portal reads from a quoted key or value
RECURSIVE unquote_plus(_)
unquote_plus(s) ==
    IF s = <<>> THEN <<>>
    ELSE IF Head(s) = "+" THEN <<" ">> \o unquote_plus(Tail(s))
    ELSE IF Head(s) = "%" /\ Len(s) >= 3
         THEN <<PercentDecoded(SubSeq(s, 2, 3))>> \o unquote_plus(SubSeq(s, 4, Len(s)))
    ELSE <<Head(s)>> \o unquote_plus(Tail(s))

\* The parameters of a URL, in their order
QueryParameters(url) ==
    LET qs == SplitFirst(url, "?")[2]
        cuts == {i \in 1..Len(qs) : qs[i] = "&"}
        cut(k) == IF k = 0 THEN 0
                  ELSE IF k > Cardinality(cuts) THEN Len(qs) + 1
                  ELSE CHOOSE i \in cuts : Cardinality({j \in cuts : j < i}) = k - 1
        part(k) == SubSeq(qs, cut(k - 1) + 1, cut(k) - 1)
    IN  [k \in 1..(Cardinality(cuts) + 1) |->
            [key |-> unquote_plus(SplitFirst(part(k), "=")[1]),
             value |-> unquote_plus(SplitFirst(part(k), "=")[2])]]

\* C24: search_standard of <bare>, "EN <bare>" or "ETSI EN <bare>" succeeds
\* with a URL that starts with the portal's base URL and whose parameters are
\* the registry defaults and qETSI_NUMBER = <bare>; no search changes the
\* shared defaults, which never hold the key qETSI_NUMBER, and a result is the
\* one its input gives on the defaults.
C24_EtsiUrl ==
    /\ search_params = DefaultSearchParams
    /\ ~DictHas(search_params, qETSI_NUMBER)
    /\ sres.call = "search_standard" =>
           /\ sres.result =
                  search_standard(base_url, DefaultSearchParams, sres.standard_number).result
           /\ \A prefix \in NumberPrefixes, bare \in BareNumbers :
                  sres.standard_number = prefix \o bare =>
                      /\ sres.result.success
                      /\ StartsWith(sres.result.search_url, base_url \o <<"?">>)
                      /\ QueryParameters(sres.result.search_url) =
                             Append(DefaultSearchParams,
                                    [key |-> qETSI_NUMBER, value |-> bare])

\* The third search of a process was for an "ETSI EN" number, after two others.
C24_Witness ==
    /\ sres.call = "search_standard" /\ sres.n = MaxSearches
    /\ sres.standard_number = <<"E", "T", "S", "I", " ", "E", "N", " ", "3", "0", "1", " ", "4", "8", "9", "-", "1", "7">>
    /\ sres.result.success
    /\ sres.last.standard_number # sres.standard_number

-----------------------------------------------------------------------------
(* utils.py: the wrapper that retry_on_failure puts around a function, step
   by step *)

MaxRetryAttempts == 4
MaxDelay == 2

\* What a call of the wrapped function does: it returns a value, raises an
\* Exception, or raises a BaseException that is no Exception (KeyboardInterrupt,
\* SystemExit), which "except Exception" does not catch.
CallOutcomes == {"returns", "raises Exception", "raises BaseException"}

\* The sleep is taken after every attempt, the last one too.
SleepsAfterEvery(attempt, max_attempts) == TRUE

\* if attempt < max_attempts - 1: time.sleep(delay)
SleepsAfter(attempt, max_attempts) == attempt < max_attempts - 1

\* wrapper(*args, **kwargs) is entered: last_exception = None, and the loop
\* starts with attempt = 0 (max_attempts >= 1).
InitRetry ==
    /\ \E max_attempts \in 1..MaxRetryAttempts, delay \in 0..MaxDelay :
          rt = [pc |-> "try", max_attempts |-> max_attempts, delay |-> delay,
                attempt |-> 0, calls |-> <<>>, sleeps |-> <<>>,
                last_exception |-> None, returned |-> None, raised |-> None]
    /\ writable = TRUE /\ search_params = <<>> /\ sres = NoCall
    /\ CompareIdle /\ config_file = None /\ ValidatorIdle /\ ConfigIdle
    /\ PureIdle /\ CacheIdle /\ FetchIdle /\ CapiIdle /\ ExtractIdle

RetryFrame ==
    UNCHANGED <<writable, search_params, sres, compareVars, config_file, validatorVars,
                configVars, pureVars, cacheVars, fetchVars, capiVars, extractVars>>

\* try: return func(*args, **kwargs) / except Exception as e: last_exception = e
RetryCall(outcome) ==
    /\ rt.pc = "try"
    /\ LET call == Len(rt.calls) + 1
           called == Append(rt.calls, [attempt |-> rt.attempt, outcome |-> outcome])
       IN  rt' = CASE outcome = "returns" ->
                        [rt EXCEPT !.calls = called, !.pc = "returned",
                                   !.returned = [value_of_call |-> call]]
                   [] outcome = "raises BaseException" ->
                        [rt EXCEPT !.calls = called, !.pc = "raised",
                                   !.raised = [exception_of_call |-> call]]
                   [] outcome = "raises Exception" ->
                        [rt EXCEPT !.calls = called,
                                   !.last_exception = [exception_of_call |-> call],
                                   !.pc = IF SleepsAfter(rt.attempt, rt.max_attempts)
                                          THEN "sleep" ELSE "continue"]
    /\ RetryFrame

\* time.sleep(delay)
RetrySleep ==
    /\ rt.pc = "sleep"
    /\ rt' = [rt EXCEPT !.sleeps = Append(@, [after_attempt |-> rt.attempt,
                                              seconds |-> rt.delay]),
                        !.pc = "continue"]
    /\ RetryFrame

\* continue: the next attempt of range(max_attempts), or the end of the loop
RetryContinue ==
    /\ rt.pc = "continue"
    /\ rt' = [rt EXCEPT !.attempt = @ + 1,
                        !.pc = IF rt.attempt + 1 < rt.max_attempts THEN "try" ELSE "raise"]
    /\ RetryFrame

\* raise last_exception
RetryReraise ==
    /\ rt.pc = "raise"
    /\ rt' = [rt EXCEPT !.pc = "raised", !.raised = rt.last_exception]
    /\ RetryFrame

NextRetry ==
    \/ \E outcome \in CallOutcomes : RetryCall(outcome)
    \/ RetrySleep
    \/ RetryContinue
    \/ RetryReraise

SpecRetry == InitRetry /\ [][NextRetry]_vars

\* The wrapper is sequential code: the wrapped function and time.sleep return
\* or raise, and the statement that is next is executed.
SpecRetryFair == SpecRetry /\ WF_vars(NextRetry)

\* The wrapper has returned or raised.
RetryDone == rt.pc \in {"returned", "raised"}

\* Every call but the last raised an Exception.
EarlierCallsRaised ==
    \A k \in 1..(Len(rt.calls) - 1) : rt.calls[k].outcome = "raises Exception"

RetrySafe ==
    /\ Len(rt.calls) <= rt.max_attempts
    /\ EarlierCallsRaised
    /\ rt.pc = "returned" <=>
           (rt.calls # <<>> /\ rt.calls[Len(rt.calls)].outcome = "returns")
    /\ rt.pc = "returned" => rt.returned = [value_of_call |-> Len(rt.calls)]
    /\ (/\ RetryDone
        /\ Len(rt.calls) = rt.max_attempts
        /\ \A k \in 1..Len(rt.calls) : rt.calls[k].outcome = "raises Exception") =>
           rt.pc = "raised" /\ rt.raised = [exception_of_call |-> rt.max_attempts]
    /\ Len(rt.sleeps) <= rt.max_attempts - 1
    /\ \A k \in 1..Len(rt.sleeps) :
           /\ rt.sleeps[k].seconds = rt.delay
           /\ rt.sleeps[k].after_attempt = k - 1
           /\ k <= Len(rt.calls)
           /\ rt.calls[k].outcome = "raises Exception"
    /\ RetryDone => Len(rt.sleeps) = Len(rt.calls) - 1

\* C25: the function under retry_on_failure(max_attempts = n, delay = d),
\* n >= 1, is called at most n times; the wrapper returns the value of the
\* first call that does not raise and calls no more; when all n calls raise it
\* raises the exception of the n-th; it sleeps d after a failed attempt that is
\* not the last, so between consecutive attempts only; and it ends.
C25_Retry == []RetrySafe /\ <>RetryDone

\* All of four attempts raised, with three sleeps between them.
C25_Witness ==
    /\ rt.pc = "raised" /\ rt.max_attempts = MaxRetryAttempts
    /\ Len(rt.calls) = MaxRetryAttempts /\ Len(rt.sleeps) = MaxRetryAttempts - 1
    /\ rt.delay = MaxDelay

-----------------------------------------------------------------------------
(* Ordering of the EN numbers with one digit group, the shape of the bundled
   EMC and LVD samples *)

\* Numbers EN <N>[-<P1>[-<P2>...]]
SingleGroupNumbers ==
    {<<"E", "N", " ", "6", "1", "0", "0", "0", "-", "4", "-", "2">>,
     <<"E", "N", " ", "6", "1", "0", "0", "0", "-", "4", "-", "1", "0">>,
     <<"E", "N", " ", "6", "1", "0", "0", "0", "-", "4", "-", "3">>,
     <<"E", "N", " ", "9", "9", "9", "9">>,
     <<"E", "N", " ", "5", "5", "0", "3", "2">>,
     <<"E", "N", " ", "6", "2", "3", "6", "8", "-", "1">>}

SingleGroupPool == {Standard(number, V190, EMC, NoText) : number \in SingleGroupNumbers}

InitSortSingleGroup ==
    /\ standards \in SeqsUpTo(SingleGroupPool, MaxLen)
    /\ query = <<>> /\ out = <<>> /\ op = "none"
    /\ CacheIdle /\ FetchIdle /\ CapiIdle /\ ExtractIdle /\ ModulesIdle

NextSortSingleGroup == SortStandards

SpecSortSingleGroup == InitSortSingleGroup /\ [][NextSortSingleGroup]_vars

\* N and the dash parts of EN <N>[-<P1>[-<P2>...]], as integers
SingleGroupValue(number) ==
    LET groups == SplitOn(SubSeq(number, 4, Len(number)), "-", <<>>)
    IN  [k \in 1..Len(groups) |-> IntOf(groups[k])]

\* C27: the sort places standards numbered EN <N>[-<P1>[-<P2>...]] by N and
\* the dash parts as integers: EN 61000-4-2 before EN 61000-4-10, EN 9999
\* before EN 55032.
C27_SingleGroupNumericOrder ==
    op = "sort" =>
        \A i, j \in 1..Len(out) :
            i < j => ~IntsLess(SingleGroupValue(out[j].number),
                               SingleGroupValue(out[i].number))

-----------------------------------------------------------------------------
(* Deduplication and the order of its input *)

\* The orderings of a list
Orderings(list) ==
    {[k \in 1..Len(list) |-> list[p[k]]] :
        p \in {q \in [1..Len(list) -> 1..Len(list)] :
                  \A a, b \in 1..Len(list) : q[a] = q[b] => a = b}}

\* C28: for standards that share one number, the version of the entry that
\* _deduplicate_standards keeps is the same for every ordering of the input,
\* also when V#.#.# versions are mixed with versions of another shape.
C28_DedupOrderIndependent ==
    (/\ op = "dedup"
     /\ standards # <<>>
     /\ \A i \in 1..Len(standards) : standards[i].number = standards[1].number) =>
        \A ordering \in Orderings(standards) :
            /\ Len(deduplicate_standards(ordering)) = 1
            /\ deduplicate_standards(ordering)[1].version = out[1].version

-----------------------------------------------------------------------------
(* The comparator at the threshold 1.0 *)

\* StandardComparator(similarity_threshold=1.0) over standards that carry a
\* number only.
InitCompareExact ==
    /\ standards \in SeqsUpTo(PlainOjPool, MaxCompare)
    /\ iso_standards \in SeqsUpTo(PlainIsoPool, MaxCompare)
    /\ similarity_threshold = One
    /\ cmp = NoCall
    /\ query = <<>> /\ out = <<>> /\ op = "none"
    /\ config_file = None /\ ValidatorIdle /\ ConfigIdle /\ ToolsIdle
    /\ CacheIdle /\ FetchIdle /\ CapiIdle /\ ExtractIdle

SpecCompareExact == InitCompareExact /\ [][NextCompare]_vars

\* The two standards carry the same comparator-normalized number.
SameNumber(oj_std, iso_std) ==
    comparator_normalize_standard_number(oj_std.number)
        = comparator_normalize_standard_number(iso_std.standard_number)

\* C30: for standards with empty versions and titles the match score is 1.0
\* only if the normalized numbers are the same string, and compare_standards
\* at the threshold 1.0 pairs no two standards whose numbers differ.
C30_FullScoreSameNumber ==
    /\ \A i \in 1..Len(standards), j \in 1..Len(iso_standards) :
          (/\ standards[i].version = NoText /\ standards[i].title = NoText
           /\ iso_standards[j].version = NoText
           /\ iso_standards[j].description = NoText
           /\ FracEq(match_score(standards[i], iso_standards[j]), One))
          => SameNumber(standards[i], iso_standards[j])
    /\ (cmp.call = "compare" /\ cmp.threshold = One) =>
          \A k \in 1..Len(cmp.result.matched_standards) :
              SameNumber(cmp.result.matched_standards[k][1],
                         cmp.result.matched_standards[k][2])

====
